---- MODULE Spec2Model ----
(***************************************************************************)
(* Verification model of the ramp-correction helpers of spaceKLIP:         *)
(*   utils.expand_mask, utils.cube_fit,                                    *)
(*   Coron1Pipeline_spaceKLIP._fit_slopes / subtract_ktc /                 *)
(*   apply_rateint_outliers / process / do_refpix / do_pseudo_refpix /     *)
(*   do_saturation / run_step / subtract_fnoise,                           *)
(*   run_single_file and run_obs.                                          *)
(* Boolean arrays are modelled by the set of their True positions, count   *)
(* arrays by functions into the integers.  Polynomial coefficients are     *)
(* exact rationals kept as numerators over a common denominator.           *)
(***************************************************************************)
EXTENDS Integers, Sequences, FiniteSets, TLC

VARIABLES
    \* ---- expand_mask (utils.py) ----
    shape,          \* <<H, W>> of the 2-D mask
    bpmask,         \* the caller's mask (set of True pixels)
    npix,           \* number of pixels to expand by
    grow_diagonal,  \* keyword argument
    em_res,         \* returned mask
    em_pc,          \* "call" before the call, "done" after, "idle" when unused
    \* ---- _fit_slopes / cube_fit / subtract_ktc (one integration) ----
    nz,             \* number of groups of the ramp (data.shape[0])
    group_time,     \* input.meta.exposure.group_time
    data,           \* input.data[0]: [group -> [pixel -> count numerator]]
    data_den,       \* [pixel -> denominator of that pixel's counts]
    groupdq,        \* input.groupdq[0]: [group -> [pixel -> flag bits]]
    sat_thresh,     \* saturation reference: [pixel -> threshold]
    cf,             \* cube_fit's cf: [0..deg -> [pixel -> numerator]]
    cf_den,         \* [pixel -> denominator of that pixel's coefficients]
    i,              \* loop index of cube_fit's backward scan
    fit_log,        \* [pixel -> sequence of the indices i at which cf[:,pixel] was written]
    fit_pc,         \* "start", "loop", "fitted", "done"; "idle" when unused
    \* ---- apply_rateint_outliers ----
    inst,           \* rateints_model.meta.instrument.name
    nint,           \* number of integrations (ramp_model.data.shape[0])
    ng,             \* number of groups (ramp_model.data.shape[1])
    ramp_groupdq,   \* ramp_model.groupdq: [int -> [group -> [pixel -> flag bits]]]
    ramp_data,      \* ramp_model.data: [int -> [group -> [pixel -> count]]]
    rateints_data,  \* rateints_model.data: [int -> [pixel -> rate]]
    indbad,         \* outlier mask returned by cube_outlier_detection (True entries)
    out_pc,         \* "call", "done", "error"; "idle" when unused
    \* ---- Coron1Pipeline_spaceKLIP.process ----
    instrument_name,    \* instrument = input.meta.instrument.name
    remove_ktc,         \* pipeline option
    remove_fnoise,      \* pipeline option
    rate_int_outliers,  \* pipeline option
    ramp_fit_skip,      \* self.ramp_fit.skip
    exp_nints,          \* input.meta.exposure.nints
    calls,              \* the steps and methods process has invoked, in order
    step_ix,            \* position in the branch's list of steps
    rate,               \* process's local rate
    rateints,           \* process's local rateints
    input,              \* process's local input
    ints_model,         \* process's local ints_model
    gain_log,           \* the products gain_scale has been run on, in order
    proc_pc,            \* position in process; "idle" when unused
    \* ---- do_refpix / do_pseudo_refpix ----
    subarray_name,      \* input.meta.subarray.name
    nlower,             \* self.refpix.nlower
    nupper,             \* self.refpix.nupper
    nleft,              \* self.refpix.nleft
    nright,             \* self.refpix.nright
    nrow_off,           \* self.refpix.nrow_off
    ncol_off,           \* self.refpix.ncol_off
    use_side_ref_pixels,\* self.refpix.use_side_ref_pixels
    rp_shape,           \* <<ny, nx>> of the pixel DQ array
    rp_pixeldq,         \* input.pixeldq: [pixel -> set of flag bit positions]
    rp_res_pixeldq,     \* res.pixeldq, None before the step has returned
    rp_res_is_input,    \* whether the step returned its input model itself
    pixeldq_orig,       \* do_pseudo_refpix's copy of the pixel DQ
    use_side_orig,      \* do_pseudo_refpix's saved step parameter
    rp_pre,             \* ghost: pixel DQ and step parameter when do_refpix was called
    rp_step_saw,        \* ghost: pixel DQ and step parameter the refpix step ran with
    rp_path,            \* ghost: "standard" or "pseudo"
    rp_pc,              \* "call", "flag", "step", "unflag", "done", "raised"; "idle" when unused
    \* ---- do_saturation ----
    sat_shape,          \* <<nint, ngroups, ny, nx>> of input.groupdq
    n_pix_grow_sat,     \* self.saturation.n_pix_grow_sat
    sat_grow_diagonal,  \* self.saturation.grow_diagonal
    flag_rcsat,         \* self.saturation.flag_rcsat
    zero_frame,         \* res.meta.exposure.zero_frame
    sat_pixeldq,        \* input.pixeldq: [pixel -> set of flag bit positions]
    sat_groupdq,        \* input.groupdq: [<<int, group, y, x>> -> flag bits]
    sat_res_groupdq,    \* res.groupdq, None before the step has returned
    sat_res_is_input,   \* whether the step returned its input model itself
    sat_zeroframe,      \* res.zeroframe == 0, as the set of its <<int, y, x>>
    npix_grow,          \* do_saturation's saved step parameter
    sat_pre,            \* ghost: group DQ and step parameter when do_saturation was called
    sat_step_saw,       \* ghost: group DQ and step parameter the saturation step ran with
    sat_stepped,        \* ghost: res.groupdq as the step returned it
    sat_pc,             \* "call", "step", "grow", "done"; "idle" when unused
    \* ---- run_obs / run_single_file ----
    database,           \* database.obs: [key -> sequence of files], a file being
                        \* [datamodl: DATAMODL, exists: its output file is on disk]
    overwrite,          \* run_obs's keyword argument
    key_ix,             \* run_obs's loop index i
    file_ix,            \* run_obs's loop index j
    run_raised,         \* whether pipeline.run of the current file raised
    events,             \* the calls made so far: <<name, key, file>>
    surfaced,           \* the exception that has left run_obs, "none" if none
    obs_pc,             \* "loop", "run", "finally", "done", "aborted"; "idle" when unused
    \* ---- run_step ----
    rs_step,            \* which step step_obj is
    rs_skip,            \* step_obj.skip
    rs_arg,             \* the save_results argument: "None", "True" or "False"
    save_intermediates, \* self.save_intermediates
    rs_save_results,    \* step_obj.save_results
    step_save_orig,     \* run_step's local step_save_orig
    really_save_results,\* run_step's local really_save_results
    rs_status,          \* res.meta.cal_step.<step> of the result
    rs_paired,          \* isinstance(res, tuple)
    rs_saved,           \* the suffix endings of the products saved, in order
    rs_pre,             \* ghost: step_obj.save_results when run_step was called
    rs_step_saw,        \* ghost: step_obj.save_results while the step ran
    rs_pc,              \* "call", "step", "save", "done"; "idle" when unused
    \* ---- subtract_fnoise, as process calls it after subtract_ktc ----
    fn_subarray,        \* input.meta.subarray.name
    fn_noutputs,        \* input.meta.exposure.noutputs
    fn_ny,              \* input.data.shape[-2]
    fn_nx,              \* input.data.shape[-1]
    fn_nints,           \* input.meta.exposure.nints
    fn_ngroups,         \* input.meta.exposure.ngroups
    fn_rk,              \* self.remove_ktc
    fn_rf,              \* self.remove_fnoise
    fn_exposure,        \* which exposure of the run is being processed
    fn_ramp,            \* the content of input.data: [exposure, ktc: bias subtracted]
    fn_entry_ramp,      \* ghost: fn_ramp when subtract_fnoise was entered
    fn_fits,            \* the _fit_slopes results so far, in call order
    fn_mask_from,       \* the _fit_slopes result signal_mask was derived from
    fn_chsize,          \* subtract_fnoise's local chsize
    fn_loop,            \* the loop indices <<i, j, ch>>
    fn_subtracted,      \* [<<i, j, x>> -> the channels whose model was subtracted there]
    fn_model_from,      \* [<<i, j, ch>> -> the columns handed to CleanSubarray]
    fn_ran,             \* whether subtract_fnoise has passed its assertions
    fn_pc,              \* "ktc", "fnoise", "fit", "channels", "done", "raised"; "idle"
    \* ---- subtract_ktc on an exposure of several integrations ----
    kt_nints,           \* input.meta.exposure.nints
    kt_ngroups,         \* input.meta.exposure.ngroups
    kt_group_time,      \* input.meta.exposure.group_time
    kt_data,            \* input.data: [int -> [group -> [pixel -> count numerator]]]
    kt_den,             \* [int -> [pixel -> denominator of that pixel's counts]]
    kt_groupdq,         \* input.groupdq: [int -> [group -> [pixel -> flag bits]]]
    kt_pixeldq,         \* input.pixeldq: [pixel -> set of flag bits]
    kt_sat,             \* sat_thresh: [pixel -> threshold]
    kt_bias_arr,        \* bias_arr: per integration [pixel -> <<numerator, denominator>>]
    kt_i,               \* the loop index i of the loop being run
    kt_pre,             \* ghost: data, groupdq and pixeldq when subtract_ktc was called
    kt_pc               \* "fit", "subtract", "done"; "idle" when unused

maskVars == <<shape, bpmask, npix, grow_diagonal, em_res, em_pc>>
fitVars == <<nz, group_time, data, data_den, groupdq, sat_thresh, cf, cf_den, i,
             fit_log, fit_pc>>

outVars == <<inst, nint, ng, ramp_groupdq, ramp_data, rateints_data, indbad, out_pc>>

procVars == <<instrument_name, remove_ktc, remove_fnoise, rate_int_outliers, ramp_fit_skip,
              exp_nints, calls, step_ix, rate, rateints, input, ints_model, gain_log,
              proc_pc>>

rpVars == <<subarray_name, nlower, nupper, nleft, nright, nrow_off, ncol_off,
            use_side_ref_pixels, rp_shape, rp_pixeldq, rp_res_pixeldq, rp_res_is_input,
            pixeldq_orig, use_side_orig, rp_pre, rp_step_saw, rp_path, rp_pc>>

satVars == <<sat_shape, n_pix_grow_sat, sat_grow_diagonal, flag_rcsat, zero_frame,
             sat_pixeldq, sat_groupdq, sat_res_groupdq, sat_res_is_input, sat_zeroframe,
             npix_grow, sat_pre, sat_step_saw, sat_stepped, sat_pc>>

obsVars == <<database, overwrite, key_ix, file_ix, run_raised, events, surfaced, obs_pc>>

rsVars == <<rs_step, rs_skip, rs_arg, save_intermediates, rs_save_results, step_save_orig,
            really_save_results, rs_status, rs_paired, rs_saved, rs_pre, rs_step_saw, rs_pc>>

\* the variables of process, do_refpix and do_saturation
earlyVars == <<procVars, rpVars, satVars>>

fnVars == <<fn_subarray, fn_noutputs, fn_ny, fn_nx, fn_nints, fn_ngroups, fn_rk, fn_rf,
            fn_exposure, fn_ramp, fn_entry_ramp, fn_fits, fn_mask_from, fn_chsize, fn_loop,
            fn_subtracted, fn_model_from, fn_ran, fn_pc>>

ktVars == <<kt_nints, kt_ngroups, kt_group_time, kt_data, kt_den, kt_groupdq, kt_pixeldq,
            kt_sat, kt_bias_arr, kt_i, kt_pre, kt_pc>>

\* the variables of the ramp corrections subtract_fnoise and subtract_ktc
corrVars == <<fnVars, ktVars>>

\* the variables of run_obs, run_single_file, run_step and the ramp corrections
lateVars == <<obsVars, rsVars, corrVars>>

\* the variables of the pipeline methods (process and the do_* wrappers)
pipeVars == <<procVars, rpVars, satVars, lateVars>>

vars == <<maskVars, fitVars, outVars, pipeVars>>

(***************************************************************************)
(* Bounds                                                                   *)
(***************************************************************************)
MaskDim == 3     \* masks have 1..MaskDim rows and 1..MaskDim columns
MaxNpix == 2     \* npix ranges over 0..MaxNpix
MaxGroups == 3   \* ramps have 1..MaxGroups groups
MaxInts == 2     \* exposures have 1..MaxInts integrations

(***************************************************************************)
(* scipy.ndimage morphology as used by expand_mask                          *)
(***************************************************************************)
Abs(x) == IF x < 0 THEN -x ELSE x

Grid(sh) == (0 .. sh[1] - 1) \X (0 .. sh[2] - 1)

\* generate_binary_structure(2, 1): the 4-connected cross (binary_dilation's
\* default structure); generate_binary_structure(2, 2): the full 3x3 square.
generate_binary_structure(rank, connectivity) ==
    { o \in (-1 .. 1) \X (-1 .. 1) : Abs(o[1]) + Abs(o[2]) <= connectivity }

\* one dilation pass; pixels outside the array count as False (border_value=0)
dilate_once(m, structure, sh) ==
    { p \in Grid(sh) : \E o \in structure : <<p[1] - o[1], p[2] - o[2]>> \in m }

RECURSIVE dilate_fix(_, _, _)
dilate_fix(m, structure, sh) ==
    LET d == dilate_once(m, structure, sh)
    IN  IF d = m THEN m ELSE dilate_fix(d, structure, sh)

RECURSIVE dilate_n(_, _, _, _)
dilate_n(m, structure, n, sh) ==
    IF n = 0 THEN m ELSE dilate_n(dilate_once(m, structure, sh), structure, n - 1, sh)

\* binary_dilation(input, structure, iterations): iterations >= 1 repeats the
\* dilation that many times, iterations < 1 repeats it until nothing changes.
binary_dilation(m, structure, iterations, sh) ==
    IF iterations < 1 THEN dilate_fix(m, structure, sh)
    ELSE dilate_n(m, structure, iterations, sh)

\* ---- mutants of expand_mask -------------------------------------------
\* no early return for npix = 0
expand_mask_noreturn(m, n, diag, sh) ==
    IF diag
    THEN binary_dilation(IF n > 1
                         THEN binary_dilation(m, generate_binary_structure(2, 1), n - 1, sh)
                         ELSE m,
                         generate_binary_structure(2, 2), 1, sh)
    ELSE binary_dilation(m, generate_binary_structure(2, 1), n, sh)

\* structuring element without its centre
expand_mask_nocentre(m, n, diag, sh) ==
    IF n = 0 THEN m
    ELSE IF diag
    THEN binary_dilation(IF n > 1
                         THEN binary_dilation(m, generate_binary_structure(2, 1) \ {<<0, 0>>}, n - 1, sh)
                         ELSE m,
                         generate_binary_structure(2, 2) \ {<<0, 0>>}, 1, sh)
    ELSE binary_dilation(m, generate_binary_structure(2, 1) \ {<<0, 0>>}, n, sh)

\* non-diagonal growth iterated one time too few
expand_mask_offbyone(m, n, diag, sh) ==
    IF n = 0 THEN m
    ELSE IF diag
    THEN binary_dilation(IF n > 1
                         THEN binary_dilation(m, generate_binary_structure(2, 1), n - 1, sh)
                         ELSE m,
                         generate_binary_structure(2, 2), 1, sh)
    ELSE IF n > 1 THEN binary_dilation(m, generate_binary_structure(2, 1), n - 1, sh)
    ELSE m

\* diagonal growth with the 3x3 element in every iteration
expand_mask_alldiag(m, n, diag, sh) ==
    IF n = 0 THEN m
    ELSE IF diag
    THEN binary_dilation(m, generate_binary_structure(2, 2), n, sh)
    ELSE binary_dilation(m, generate_binary_structure(2, 1), n, sh)

\* utils.expand_mask(bpmask, npix, grow_diagonal)
expand_mask(m, n, diag, sh) ==
    IF n = 0 THEN m
    ELSE IF diag
    THEN binary_dilation(IF n > 1
                         THEN binary_dilation(m, generate_binary_structure(2, 1), n - 1, sh)
                         ELSE m,
                         generate_binary_structure(2, 2), 1, sh)
    ELSE binary_dilation(m, generate_binary_structure(2, 1), n, sh)

\* the expand_mask variables while another operation is being checked
MaskIdle ==
    /\ shape = <<1, 1>>
    /\ bpmask = {}
    /\ npix = 0
    /\ grow_diagonal = FALSE
    /\ em_res = {}
    /\ em_pc = "idle"

\* the apply_rateint_outliers variables while another operation is checked
OutIdle ==
    /\ inst = "NIRCAM"
    /\ nint = 1
    /\ ng = 1
    /\ ramp_groupdq = <<>>
    /\ ramp_data = <<>>
    /\ rateints_data = <<>>
    /\ indbad = {}
    /\ out_pc = "idle"

\* a value of process's locals: <<kind, number of the ramp fit that made it>>
None == <<"None", 0>>

\* the process variables while another operation is checked
ProcIdle ==
    /\ instrument_name = "NIRCAM"
    /\ remove_ktc = FALSE
    /\ remove_fnoise = FALSE
    /\ rate_int_outliers = FALSE
    /\ ramp_fit_skip = FALSE
    /\ exp_nints = 1
    /\ calls = <<>>
    /\ step_ix = 0
    /\ rate = None
    /\ rateints = None
    /\ input = None
    /\ ints_model = None
    /\ gain_log = <<>>
    /\ proc_pc = "idle"

\* the do_refpix variables while another operation is being checked
RefpixIdle ==
    /\ subarray_name = "FULL"
    /\ nlower = 0 /\ nupper = 0 /\ nleft = 0 /\ nright = 0
    /\ nrow_off = 0 /\ ncol_off = 0
    /\ use_side_ref_pixels = FALSE
    /\ rp_shape = <<1, 1>>
    /\ rp_pixeldq = None
    /\ rp_res_pixeldq = None
    /\ rp_res_is_input = FALSE
    /\ pixeldq_orig = None
    /\ use_side_orig = FALSE
    /\ rp_pre = None
    /\ rp_step_saw = None
    /\ rp_path = "none"
    /\ rp_pc = "idle"

\* the do_saturation variables while another operation is being checked
SatIdle ==
    /\ sat_shape = <<1, 1, 1, 1>>
    /\ n_pix_grow_sat = 0
    /\ sat_grow_diagonal = FALSE
    /\ flag_rcsat = FALSE
    /\ zero_frame = FALSE
    /\ sat_pixeldq = None
    /\ sat_groupdq = None
    /\ sat_res_groupdq = None
    /\ sat_res_is_input = FALSE
    /\ sat_zeroframe = {}
    /\ npix_grow = 0
    /\ sat_pre = None
    /\ sat_step_saw = None
    /\ sat_stepped = None
    /\ sat_pc = "idle"

\* the run_obs variables while another operation is being checked
ObsIdle ==
    /\ database = <<>>
    /\ overwrite = FALSE
    /\ key_ix = 0
    /\ file_ix = 0
    /\ run_raised = FALSE
    /\ events = <<>>
    /\ surfaced = "none"
    /\ obs_pc = "idle"

\* the run_step variables while another operation is being checked
RunStepIdle ==
    /\ rs_step = "jump"
    /\ rs_skip = FALSE
    /\ rs_arg = "None"
    /\ save_intermediates = FALSE
    /\ rs_save_results = FALSE
    /\ step_save_orig = FALSE
    /\ really_save_results = FALSE
    /\ rs_status = "none"
    /\ rs_paired = FALSE
    /\ rs_saved = <<>>
    /\ rs_pre = FALSE
    /\ rs_step_saw = None
    /\ rs_pc = "idle"

\* a ramp content and a _fit_slopes result that stand for "none yet"
NoRamp == [exposure |-> 0, ktc |-> FALSE]
NoFit == [caller |-> "none", ramp |-> NoRamp]

\* the subtract_fnoise variables while another operation is being checked
FnoiseIdle ==
    /\ fn_subarray = "FULL"
    /\ fn_noutputs = 4
    /\ fn_ny = 0
    /\ fn_nx = 0
    /\ fn_nints = 0
    /\ fn_ngroups = 0
    /\ fn_rk = FALSE
    /\ fn_rf = FALSE
    /\ fn_exposure = 0
    /\ fn_ramp = NoRamp
    /\ fn_entry_ramp = NoRamp
    /\ fn_fits = <<>>
    /\ fn_mask_from = NoFit
    /\ fn_chsize = 0
    /\ fn_loop = <<0, 0, 0>>
    /\ fn_subtracted = <<>>
    /\ fn_model_from = <<>>
    /\ fn_ran = FALSE
    /\ fn_pc = "idle"

\* the subtract_ktc variables while another operation is being checked
KtcIdle ==
    /\ kt_nints = 0
    /\ kt_ngroups = 0
    /\ kt_group_time = 1
    /\ kt_data = <<>>
    /\ kt_den = <<>>
    /\ kt_groupdq = <<>>
    /\ kt_pixeldq = <<>>
    /\ kt_sat = <<>>
    /\ kt_bias_arr = <<>>
    /\ kt_i = 0
    /\ kt_pre = <<>>
    /\ kt_pc = "idle"

CorrIdle == FnoiseIdle /\ KtcIdle

LateIdle == ObsIdle /\ RunStepIdle /\ CorrIdle

PipeIdle == ProcIdle /\ RefpixIdle /\ SatIdle /\ LateIdle

(***************************************************************************)
(* Ramp fit: _fit_slopes -> cube_fit, and subtract_ktc                      *)
(***************************************************************************)
\* the flattened frame (cube_fit reshapes [nz, ny, nx] to [nz, ny*nx])
Pixels == {1, 2}

DataVals == {0, 2, 4}     \* counts a sample may hold
SatVals == {8}            \* saturation thresholds of the reference file
GroupTimes == {1, 2}
DO_NOT_USE == 1           \* dqflags.pixel['DO_NOT_USE']
JUMP_DET == 4             \* dqflags.pixel['JUMP_DET']

\* sat_frac = 0.5 as SatFracNum / SatFracDen
SatFracNum == 1
SatFracDen == 2
deg == 1
fit_zero == FALSE

Groups == 0 .. nz - 1

RECURSIVE SumTo(_, _)
\* f[0] + ... + f[n]
SumTo(f, n) == IF n < 0 THEN 0 ELSE f[n] + SumTo(f, n - 1)

\* tarr = np.arange(1, ngroups+1) * group_time
tarr_of(ngroups, gt) == [g \in 0 .. ngroups - 1 |-> (g + 1) * gt]

\* bpmask_arr = np.cumsum(groupdq, axis=0) > 0
bpmask_arr(dq, g, p) == SumTo([k \in 0 .. g |-> dq[k][p]], g) > 0

\* mutant: the bad-pixel mask is not applied
mask_good_nobpmask(dat, sat, dq, g, p) ==
    dat[g][p] * SatFracDen < SatFracNum * sat[p]

\* mask_good = (imarr < sat_frac*sat_vals) & ~bpmask_arr
mask_good(dat, sat, dq, g, p) ==
    /\ dat[g][p] * SatFracDen < SatFracNum * sat[p]
    /\ ~bpmask_arr(dq, g, p)

\* Least-squares straight line through (x[k], y[k]), k = 0..len-1, as
\* <<intercept numerator, slope numerator, common denominator>>.
jl_poly_fit(x, y, len) ==
    LET Sx  == SumTo(x, len - 1)
        Sy  == SumTo(y, len - 1)
        Sxx == SumTo([k \in 0 .. len - 1 |-> x[k] * x[k]], len - 1)
        Sxy == SumTo([k \in 0 .. len - 1 |-> x[k] * y[k]], len - 1)
    IN  <<Sxx * Sy - Sx * Sxy, len * Sxy - Sx * Sy, len * Sxx - Sx * Sx>>

\* mutant: elapsed time counted from the first group of the fit
fit_pixel_shifted(t, dat, idx, p) ==
    jl_poly_fit([k \in 0 .. idx |-> t[k] - t[0]], [k \in 0 .. idx |-> dat[k][p]], idx + 1)

\* the x, y handed to jl_poly_fit for pixel p at index idx
\* (x, y = tarr[0:i+1], imarr[0:i+1,ind]; with fit_zero a (0, 0) sample first)
fit_pixel(t, dat, idx, p) ==
    IF fit_zero
    THEN jl_poly_fit([k \in 0 .. idx + 1 |-> IF k = 0 THEN 0 ELSE t[k - 1]],
                     [k \in 0 .. idx + 1 |-> IF k = 0 THEN 0 ELSE dat[k - 1][p]],
                     idx + 2)
    ELSE jl_poly_fit([k \in 0 .. idx |-> t[k]], [k \in 0 .. idx |-> dat[k][p]], idx + 1)

\* ind = (cf[1] == 0) & (mask_good[i])
ind_of(c, dat, sat, dq, idx) ==
    { p \in Pixels : c[1][p] = 0 /\ mask_good(dat, sat, dq, idx, p) }

i0 == IF fit_zero THEN 0 ELSE 1

FitIdle ==
    /\ nz = 1
    /\ group_time = 1
    /\ data = <<>>
    /\ data_den = <<>>
    /\ groupdq = <<>>
    /\ sat_thresh = <<>>
    /\ cf = <<>>
    /\ cf_den = <<>>
    /\ i = 0
    /\ fit_log = <<>>
    /\ fit_pc = "idle"

\* group DQ of one pixel: no flag, or one flagged group (the cumulative sum
\* of _fit_slopes extends it to the later groups)
DQColumns(n) ==
    { [g \in 0 .. n - 1 |-> 0] } \cup
    { [g \in 0 .. n - 1 |-> IF g = f THEN v ELSE 0] :
        f \in 0 .. n - 1, v \in {JUMP_DET} }

InitFit ==
    /\ PipeIdle
    /\ MaskIdle
    /\ OutIdle
    /\ nz \in 1 .. MaxGroups
    /\ group_time \in GroupTimes
    /\ data \in [Groups -> [Pixels -> DataVals]]
    /\ data_den = [p \in Pixels |-> 1]
    /\ \E dqc \in [Pixels -> DQColumns(nz)] :
          groupdq = [g \in Groups |-> [p \in Pixels |-> dqc[p][g]]]
    /\ sat_thresh \in [Pixels -> SatVals]
    /\ cf = [d \in 0 .. deg |-> [p \in Pixels |-> 0]]
    /\ cf_den = [p \in Pixels |-> 1]
    /\ i = 0
    /\ fit_log = [p \in Pixels |-> <<>>]
    /\ fit_pc = "start"

\* _fit_slopes up to the first iteration of cube_fit's loop: cf = zeros,
\* the scan starts at the last group (np.arange(i0, nz)[::-1]).
FitSlopesEnter ==
    /\ fit_pc = "start"
    /\ cf' = [d \in 0 .. deg |-> [p \in Pixels |-> 0]]
    /\ cf_den' = [p \in Pixels |-> 1]
    /\ i' = nz - 1
    /\ fit_pc' = IF nz - 1 >= i0 THEN "loop" ELSE "fitted"
    /\ UNCHANGED <<nz, group_time, data, data_den, groupdq, sat_thresh, fit_log>>
    /\ UNCHANGED <<maskVars, outVars, pipeVars>>

\* one iteration of "for i in np.arange(i0,nz)[::-1]"
CubeFitIter ==
    /\ fit_pc = "loop"
    /\ LET ind == ind_of(cf, data, sat_thresh, groupdq, i)
           t   == tarr_of(nz, group_time)
           np_ == Cardinality(ind)
           fit == [p \in Pixels |-> fit_pixel(t, data, i, p)]
       IN  IF np_ > 0
           THEN /\ cf' = [d \in 0 .. deg |->
                            [p \in Pixels |-> IF p \in ind THEN fit[p][d + 1] ELSE cf[d][p]]]
                /\ cf_den' = [p \in Pixels |-> IF p \in ind THEN fit[p][3] ELSE cf_den[p]]
                /\ fit_log' = [p \in Pixels |->
                                 IF p \in ind THEN Append(fit_log[p], i) ELSE fit_log[p]]
           ELSE UNCHANGED <<cf, cf_den, fit_log>>
    /\ i' = i - 1
    /\ fit_pc' = IF i - 1 >= i0 THEN "loop" ELSE "fitted"
    /\ UNCHANGED <<nz, group_time, data, data_den, groupdq, sat_thresh>>
    /\ UNCHANGED <<maskVars, outVars, pipeVars>>

\* subtract_ktc: input.data[i] -= bias_arr[i], with bias_arr[i] = cf[0]
SubtractKtc ==
    /\ fit_pc = "fitted"
    /\ data' = [g \in Groups |->
                  [p \in Pixels |-> data[g][p] * cf_den[p] - cf[0][p] * data_den[p]]]
    /\ data_den' = [p \in Pixels |-> data_den[p] * cf_den[p]]
    /\ fit_pc' = "done"
    /\ UNCHANGED <<nz, group_time, groupdq, sat_thresh, cf, cf_den, i, fit_log>>
    /\ UNCHANGED <<maskVars, outVars, pipeVars>>

NextFit == FitSlopesEnter \/ CubeFitIter \/ SubtractKtc

SpecFit == InitFit /\ [][NextFit]_vars

(***************************************************************************)
(* Specification SpecLinear: the same fit on exactly linear ramps,          *)
(* data[g][p] = bias + slope * tarr[g]                                      *)
(***************************************************************************)
Biases == {0, 3, 100}
Slopes == {0, 2, 10}
SatValsLinear == {40, 1000}

InitLinear ==
    /\ PipeIdle
    /\ MaskIdle
    /\ OutIdle
    /\ nz \in 1 .. MaxGroups
    /\ group_time \in GroupTimes
    /\ \E b \in [Pixels -> Biases], sl \in [Pixels -> Slopes] :
          data = [g \in Groups |->
                    [p \in Pixels |-> b[p] + sl[p] * tarr_of(nz, group_time)[g]]]
    /\ data_den = [p \in Pixels |-> 1]
    /\ \E dqc \in [Pixels -> DQColumns(nz)] :
          groupdq = [g \in Groups |-> [p \in Pixels |-> dqc[p][g]]]
    /\ sat_thresh \in [Pixels -> SatValsLinear]
    /\ cf = [d \in 0 .. deg |-> [p \in Pixels |-> 0]]
    /\ cf_den = [p \in Pixels |-> 1]
    /\ i = 0
    /\ fit_log = [p \in Pixels |-> <<>>]
    /\ fit_pc = "start"

SpecLinear == InitLinear /\ [][NextFit]_vars

(***************************************************************************)
(* Outlier-to-DQ propagation: apply_rateint_outliers                        *)
(***************************************************************************)
SATURATED == 2            \* dqflags.pixel['SATURATED']

Instruments == {"NIRCAM", "MIRI"}
DQVals == {0, DO_NOT_USE, SATURATED, SATURATED + JUMP_DET}
CountVals == {0, 5}
RateVals == {7}

NPixels == Cardinality(Pixels)

RECURSIVE BitOp(_, _, _, _)
\* bitwise combination of a and b over w bits; isOr selects | over &
BitOp(a, b, w, isOr) ==
    IF w = 0 THEN 0
    ELSE LET ba == a % 2
             bb == b % 2
             bit == IF isOr THEN (IF ba + bb > 0 THEN 1 ELSE 0)
                            ELSE (IF ba + bb = 2 THEN 1 ELSE 0)
         IN  bit + 2 * BitOp(a \div 2, b \div 2, w - 1, isOr)

\* groupdq holds 8-bit flag words
BitOr(a, b) == BitOp(a, b, 8, TRUE)
BitAnd(a, b) == BitOp(a, b, 8, FALSE)

\* integrations of the cube handed to cube_outlier_detection:
\* rateints_model.data[1:] if 'MIRI' in inst else rateints_model.data
detect_ints(instrument, n) ==
    IF instrument = "MIRI" THEN 0 .. n - 2 ELSE 0 .. n - 1

\* cube_outlier_detection(data): a boolean mask of the shape of data
cube_outlier_detection(instrument, n) ==
    SUBSET (detect_ints(instrument, n) \X Pixels)

\* indbad.reshape([nint, 1, ny, nx]) succeeds iff the element counts agree
reshape_ok(instrument, n) ==
    Cardinality(detect_ints(instrument, n)) * NPixels = n * 1 * NPixels

\* mutant: the mask is not repeated along the group axis
bpmask_of_firstgroup(mask, ii, g, p) ==
    g = 0 /\ <<ii, p>> \in mask

\* bpmask = np.repeat(indbad.reshape([nint, 1, ny, nx]), ng, axis=1):
\* entry (ii, g, p) is the flat element ii*ny*nx + p of indbad, for every g
bpmask_of(mask, ii, g, p) ==
    LET flat == ii * NPixels + (p - 1)
    IN  <<flat \div NPixels, (flat % NPixels) + 1>> \in mask

\* lines 354-363 for one groupdq entry
new_groupdq(old, bad) ==
    LET mask_dnu == (BitAnd(old, DO_NOT_USE) > 0) \/ bad
        mask_jd  == (BitAnd(old, JUMP_DET) > 0) \/ bad
        step1    == BitOr(old, IF mask_dnu THEN DO_NOT_USE ELSE 0)
    IN  BitOr(step1, IF mask_jd THEN JUMP_DET ELSE 0)

Ints == 0 .. nint - 1
DQGroups == 0 .. ng - 1

InitOutlier ==
    /\ PipeIdle
    /\ MaskIdle
    /\ FitIdle
    /\ inst \in Instruments
    /\ nint \in 1 .. MaxInts
    /\ ng \in 1 .. MaxGroups
    /\ \E v0 \in DQVals, v1 \in DQVals, ei \in Ints, eg \in DQGroups, ep \in Pixels :
          ramp_groupdq = [ii \in Ints |-> [g \in DQGroups |-> [p \in Pixels |->
                            IF ii = ei /\ g = eg /\ p = ep THEN v1 ELSE v0]]]
    /\ \E c \in CountVals :
          ramp_data = [ii \in Ints |-> [g \in DQGroups |-> [p \in Pixels |-> c]]]
    /\ \E r \in RateVals :
          rateints_data = [ii \in Ints |-> [p \in Pixels |-> r]]
    /\ indbad = {}
    /\ out_pc = "call"

\* apply_rateint_outliers(rateints_model, ramp_model)
ApplyRateintOutliers ==
    /\ out_pc = "call"
    /\ \E mask \in cube_outlier_detection(inst, nint) :
          /\ indbad' = mask
          /\ IF reshape_ok(inst, nint)
             THEN /\ ramp_groupdq' =
                        [ii \in Ints |-> [g \in DQGroups |-> [p \in Pixels |->
                            new_groupdq(ramp_groupdq[ii][g][p], bpmask_of(mask, ii, g, p))]]]
                  /\ out_pc' = "done"
             ELSE /\ UNCHANGED ramp_groupdq       \* reshape raises ValueError
                  /\ out_pc' = "error"
    /\ UNCHANGED <<inst, nint, ng, ramp_data, rateints_data>>
    /\ UNCHANGED <<maskVars, fitVars, pipeVars>>

NextOutlier == ApplyRateintOutliers

SpecOutlier == InitOutlier /\ [][NextOutlier]_vars

(***************************************************************************)
(* Coron1Pipeline_spaceKLIP.process                                         *)
(***************************************************************************)
ProcInstruments == {"MIRI", "NIRCAM", "NIRSPEC", "UNKNOWN"}

\* the calls of the MIRI branch (lines 117-129) and of the other branch
\* (lines 131-141), in program order
mir_steps ==
    <<"group_scale", "dq_init", "saturation", "ipc", "firstframe", "lastframe",
      "reset", "linearity", "rscd", "dark_current", "do_refpix",
      "charge_migration", "jump">>

\* mutant: linearity moved before the reference-pixel fix
nir_steps_refpix_late ==
    <<"group_scale", "dq_init", "do_saturation", "ipc", "superbias", "linearity",
      "do_refpix", "jump", "persistence", "dark_current", "charge_migration">>

nir_steps ==
    <<"group_scale", "dq_init", "do_saturation", "ipc", "superbias", "do_refpix",
      "linearity", "persistence", "dark_current", "charge_migration", "jump">>

\* mutant: every exposure takes the else branch
is_mir_never(name) == FALSE

\* if instrument == 'MIRI':
is_mir(name) == name = "MIRI"

\* the calls of the branch taken
branch_steps(name) == IF is_mir(name) THEN mir_steps ELSE nir_steps

\* mutant: bias removal gated by remove_ktc alone
ktc_enabled_own(rk, rf) == rk

\* if self.remove_ktc or self.remove_fnoise:
ktc_enabled(rk, rf) == rk \/ rf

\* if self.remove_fnoise:
fnoise_enabled(rk, rf) == rf

\* mutant: the recheck runs whenever a rateints product exists
outliers_enabled_always(flag, ri) == ri # None

\* if self.rate_int_outliers and rateints is not None:
outliers_enabled(flag, ri) == flag /\ ri # None

\* res of run_step(self.ramp_fit, ...) unpacked as
\* (res, None) if self.ramp_fit.skip else res, for the n-th ramp fit
ramp_fit_results(skip, n) ==
    IF skip
    THEN { <<r, None>> : r \in {None, <<"rate", n>>} }
    ELSE { <<r, ri>> : r \in {None, <<"rate", n>>}, ri \in {None, <<"rateints", n>>} }

InitProcess ==
    /\ MaskIdle
    /\ FitIdle
    /\ OutIdle
    /\ RefpixIdle
    /\ SatIdle
    /\ LateIdle
    /\ instrument_name \in ProcInstruments
    /\ remove_ktc \in BOOLEAN
    /\ remove_fnoise \in BOOLEAN
    /\ rate_int_outliers \in BOOLEAN
    /\ ramp_fit_skip \in BOOLEAN
    /\ exp_nints \in 1 .. MaxInts
    /\ calls = <<>>
    /\ step_ix = 0
    /\ rate = None
    /\ rateints = None
    /\ input = None
    /\ ints_model = None
    /\ gain_log = <<>>
    /\ proc_pc = "start"

procConfig == <<instrument_name, remove_ktc, remove_fnoise, rate_int_outliers, ramp_fit_skip,
                exp_nints>>

\* input = RampModel(input); instrument_name = input.meta.instrument_name.name
ProcOpen ==
    /\ proc_pc = "start"
    /\ input' = <<"ramp", 0>>
    /\ step_ix' = 1
    /\ proc_pc' = "branch"
    /\ UNCHANGED <<procConfig, gain_log, calls, rate, rateints, ints_model>>
    /\ UNCHANGED <<maskVars, fitVars, outVars, rpVars, satVars, lateVars>>

\* the next call of the instrument_name's branch
ProcBranchStep ==
    /\ proc_pc = "branch"
    /\ calls' = Append(calls, branch_steps(instrument_name)[step_ix])
    /\ IF step_ix < Len(branch_steps(instrument_name))
       THEN /\ step_ix' = step_ix + 1
            /\ proc_pc' = "branch"
       ELSE /\ step_ix' = step_ix
            /\ proc_pc' = IF is_mir(instrument_name) THEN "ramp_fit" ELSE "ktc"
    /\ UNCHANGED <<procConfig, gain_log, rate, rateints, input, ints_model>>
    /\ UNCHANGED <<maskVars, fitVars, outVars, rpVars, satVars, lateVars>>

\* if self.remove_ktc or self.remove_fnoise: input = self.subtract_ktc(input)
ProcKtc ==
    /\ proc_pc = "ktc"
    /\ calls' = IF ktc_enabled(remove_ktc, remove_fnoise)
                THEN Append(calls, "subtract_ktc") ELSE calls
    /\ proc_pc' = "fnoise"
    /\ UNCHANGED <<procConfig, gain_log, step_ix, rate, rateints, input, ints_model>>
    /\ UNCHANGED <<maskVars, fitVars, outVars, rpVars, satVars, lateVars>>

\* if self.remove_fnoise: input = self.subtract_fnoise(input, ...)
ProcFnoise ==
    /\ proc_pc = "fnoise"
    /\ calls' = IF fnoise_enabled(remove_ktc, remove_fnoise)
                THEN Append(calls, "subtract_fnoise") ELSE calls
    /\ proc_pc' = "ramp_fit"
    /\ UNCHANGED <<procConfig, gain_log, step_ix, rate, rateints, input, ints_model>>
    /\ UNCHANGED <<maskVars, fitVars, outVars, rpVars, satVars, lateVars>>

\* res = self.run_step(self.ramp_fit, input, save_results=False)
\* rate, rateints = (res, None) if self.ramp_fit.skip else res
ProcRampFit ==
    /\ proc_pc = "ramp_fit"
    /\ calls' = Append(calls, "ramp_fit")
    /\ \E res \in ramp_fit_results(ramp_fit_skip, 1) :
          /\ rate' = res[1]
          /\ rateints' = res[2]
    /\ proc_pc' = "outliers"
    /\ UNCHANGED <<procConfig, gain_log, step_ix, input, ints_model>>
    /\ UNCHANGED <<maskVars, fitVars, outVars, rpVars, satVars, lateVars>>

\* lines 154-163; apply_rateint_outliers returns its ramp_model, or raises
\* in the reshape (reshape_ok)
ProcOutliers ==
    /\ proc_pc = "outliers"
    /\ IF outliers_enabled(rate_int_outliers, rateints)
       THEN /\ calls' = Append(calls, "apply_rateint_outliers")
            /\ IF ~reshape_ok(instrument_name, exp_nints)
               THEN /\ proc_pc' = "error"              \* ValueError leaves process
                    /\ UNCHANGED <<input, ints_model>>
               ELSE IF input = None                    \* the ramp_model handed in is returned
               THEN /\ input' = rate
                    /\ ints_model' = rateints
                    /\ proc_pc' = "gain_rate"
               ELSE /\ proc_pc' = "refit"
                    /\ UNCHANGED <<input, ints_model>>
       ELSE /\ input' = rate
            /\ ints_model' = rateints
            /\ proc_pc' = "gain_rate"
            /\ UNCHANGED calls
    /\ UNCHANGED <<procConfig, gain_log, step_ix, rate, rateints>>
    /\ UNCHANGED <<maskVars, fitVars, outVars, rpVars, satVars, lateVars>>

\* res = self.run_step(self.ramp_fit, input, save_results=False)
\* input, ints_model = (res, None) if self.ramp_fit.skip else res
ProcRefit ==
    /\ proc_pc = "refit"
    /\ calls' = Append(calls, "ramp_fit")
    /\ \E res \in ramp_fit_results(ramp_fit_skip, 2) :
          /\ input' = res[1]
          /\ ints_model' = res[2]
    /\ proc_pc' = "gain_rate"
    /\ UNCHANGED <<procConfig, gain_log, step_ix, rate, rateints>>
    /\ UNCHANGED <<maskVars, fitVars, outVars, rpVars, satVars, lateVars>>

\* mutant: gain scale attempted on an absent product as well
gain_scaled_always(model) == TRUE

\* if input is None: (skipped) else: ...; if ints_model is not None: ...
gain_scaled(model) == model # None

\* lines 165-169: gain scale of the rate product unless it is None
ProcGainRate ==
    /\ proc_pc = "gain_rate"
    /\ calls' = IF gain_scaled(input) THEN Append(calls, "gain_scale") ELSE calls
    /\ gain_log' = IF gain_scaled(input) THEN Append(gain_log, input[1]) ELSE gain_log
    /\ proc_pc' = "gain_ints"
    /\ UNCHANGED <<procConfig, step_ix, rate, rateints, input, ints_model>>
    /\ UNCHANGED <<maskVars, fitVars, outVars, rpVars, satVars, lateVars>>

\* lines 173-182: gain scale of the rateints product if it exists; return input
ProcGainInts ==
    /\ proc_pc = "gain_ints"
    /\ calls' = IF gain_scaled(ints_model) THEN Append(calls, "gain_scale") ELSE calls
    /\ gain_log' = IF gain_scaled(ints_model)
                   THEN Append(gain_log, ints_model[1])
                   ELSE gain_log
    /\ proc_pc' = "done"
    /\ UNCHANGED <<procConfig, step_ix, rate, rateints, input, ints_model>>
    /\ UNCHANGED <<maskVars, fitVars, outVars, rpVars, satVars, lateVars>>

NextProcess ==
    \/ ProcOpen \/ ProcBranchStep \/ ProcKtc \/ ProcFnoise \/ ProcRampFit
    \/ ProcOutliers \/ ProcRefit \/ ProcGainRate \/ ProcGainInts

SpecProcess == InitProcess /\ [][NextProcess]_vars

(***************************************************************************)
(* Specification SpecRefpix: one call of do_refpix.  A pixel DQ word is     *)
(* the set of its flag bit positions, so OR is set union; the refpix step   *)
(* of the jwst package leaves the pixel DQ as it finds it and returns its   *)
(* input model or a new one.                                                *)
(***************************************************************************)
REFERENCE_PIXEL == 31     \* dqflags.pixel['REFERENCE_PIXEL'] = 2^31, as a bit position

RefWidths == {0, 1, 2}    \* values of nlower, nupper, nleft, nright
RefOffsets == {0, 1}      \* values of nrow_off, ncol_off
SubarrayNames == {"FULL", "SUB320"}
RpWords == {{}, {0}, {REFERENCE_PIXEL}}   \* pixel DQ words of the incoming model

\* a[start:stop] on an axis of length n: the indices numpy selects
slice_index(k, n) ==
    IF k < 0 THEN (IF k + n < 0 THEN 0 ELSE k + n) ELSE (IF k > n THEN n ELSE k)

py_slice(start, stop, n) ==
    { k \in 0 .. n - 1 : slice_index(start, n) <= k /\ k < slice_index(stop, n) }

\* it2 = None if nrow_off == 0 else -1 * nrow_off  (None: to the end of the axis)
upper_stop(off, n) == IF off = 0 THEN n ELSE -1 * off

\* the rows [ib1:ib2], [it1:it2] and the columns [il1:il2], [ir1:ir2]
lower_rows == IF nlower > 0 THEN py_slice(nrow_off, nrow_off + nlower, rp_shape[1]) ELSE {}
upper_rows ==
    IF nupper > 0
    THEN py_slice(-1 * (nupper + nrow_off), upper_stop(nrow_off, rp_shape[1]), rp_shape[1])
    ELSE {}
left_cols == IF nleft > 0 THEN py_slice(ncol_off, ncol_off + nleft, rp_shape[2]) ELSE {}
right_cols ==
    IF nright > 0
    THEN py_slice(-1 * (nright + ncol_off), upper_stop(ncol_off, rp_shape[2]), rp_shape[2])
    ELSE {}

sliced(p) == p[1] \in lower_rows \cup upper_rows \/ p[2] \in left_cols \cup right_cols

\* input.pixeldq[...] = input.pixeldq[...] | REFERENCE_PIXEL on the four slices
flag_slices(dq) == [p \in DOMAIN dq |-> IF sliced(p) THEN dq[p] \cup {REFERENCE_PIXEL} ELSE dq[p]]

\* mutant: the added bit is cleared instead of the saved words being copied back
unflag_slices_clearbit(dq, orig) ==
    [p \in DOMAIN dq |-> IF sliced(p) THEN dq[p] \ {REFERENCE_PIXEL} ELSE dq[p]]

\* res.pixeldq[...] = pixeldq_orig[...] on the four slices
unflag_slices(dq, orig) == [p \in DOMAIN dq |-> IF sliced(p) THEN orig[p] ELSE dq[p]]

\* is_full_frame = 'FULL' in input.meta.subarray.name.upper()
is_full_frame(name) == name = "FULL"

\* mutant: the column widths counted as well
nref_set_all(lower, upper, left, right) == lower + upper + left + right

\* nref_set = nlower + nupper #+ nleft + nright
nref_set(lower, upper, left, right) == lower + upper

InitRefpix ==
    /\ MaskIdle /\ FitIdle /\ OutIdle /\ ProcIdle /\ SatIdle /\ LateIdle
    /\ subarray_name \in SubarrayNames
    /\ nlower \in RefWidths /\ nupper \in RefWidths
    /\ nleft \in RefWidths /\ nright \in RefWidths
    /\ nrow_off \in RefOffsets /\ ncol_off \in RefOffsets
    /\ use_side_ref_pixels \in BOOLEAN
    /\ rp_shape = <<MaskDim, MaskDim>>
    /\ rp_pixeldq \in { [p \in Grid(rp_shape) |-> IF p = q THEN w ELSE {}] :
                           q \in Grid(rp_shape), w \in RpWords }
    /\ rp_res_pixeldq = None
    /\ rp_res_is_input = FALSE
    /\ pixeldq_orig = None
    /\ use_side_orig = FALSE
    /\ rp_pre = <<rp_pixeldq, use_side_ref_pixels>>
    /\ rp_step_saw = None
    /\ rp_path = "none"
    /\ rp_pc = "call"

rpConfig == <<subarray_name, nlower, nupper, nleft, nright, nrow_off, ncol_off, rp_shape, rp_pre>>

\* do_refpix: the choice of the path
DoRefpix ==
    /\ rp_pc = "call"
    /\ IF is_full_frame(subarray_name) \/ nref_set(nlower, nupper, nleft, nright) = 0
       THEN rp_path' = "standard" /\ rp_pc' = "step"
       ELSE rp_path' = "pseudo" /\ rp_pc' = "flag"
    /\ UNCHANGED <<rpConfig, use_side_ref_pixels, rp_pixeldq, rp_res_pixeldq, rp_res_is_input,
                   pixeldq_orig, use_side_orig, rp_step_saw>>
    /\ UNCHANGED <<maskVars, fitVars, outVars, procVars, satVars, lateVars>>

\* do_pseudo_refpix up to the call of the step
PseudoFlag ==
    /\ rp_pc = "flag"
    /\ pixeldq_orig' = rp_pixeldq
    /\ rp_pixeldq' = flag_slices(rp_pixeldq)
    /\ use_side_orig' = use_side_ref_pixels
    /\ use_side_ref_pixels' = IF nleft + nright = 0 THEN FALSE ELSE use_side_ref_pixels
    /\ rp_pc' = "step"
    /\ UNCHANGED <<rpConfig, rp_res_pixeldq, rp_res_is_input, rp_step_saw, rp_path>>
    /\ UNCHANGED <<maskVars, fitVars, outVars, procVars, satVars, lateVars>>

\* res = self.run_step(self.refpix, input)
RefpixStep ==
    /\ rp_pc = "step"
    /\ rp_step_saw' = <<rp_pixeldq, use_side_ref_pixels>>
    /\ rp_res_is_input' \in BOOLEAN
    /\ rp_res_pixeldq' = rp_pixeldq
    /\ rp_pc' = IF rp_path = "pseudo" THEN "unflag" ELSE "done"
    /\ UNCHANGED <<rpConfig, use_side_ref_pixels, rp_pixeldq, pixeldq_orig, use_side_orig,
                   rp_path>>
    /\ UNCHANGED <<maskVars, fitVars, outVars, procVars, satVars, lateVars>>

\* the refpix step raises: neither do_pseudo_refpix nor do_refpix has a
\* handler, so the exception leaves them with the state as it is
RefpixStepRaises ==
    /\ rp_pc = "step"
    /\ rp_step_saw' = <<rp_pixeldq, use_side_ref_pixels>>
    /\ rp_pc' = "raised"
    /\ UNCHANGED <<rpConfig, use_side_ref_pixels, rp_pixeldq, rp_res_pixeldq, rp_res_is_input,
                   pixeldq_orig, use_side_orig, rp_path>>
    /\ UNCHANGED <<maskVars, fitVars, outVars, procVars, satVars, lateVars>>

\* do_pseudo_refpix after the step has returned
PseudoUnflag ==
    /\ rp_pc = "unflag"
    /\ use_side_ref_pixels' = use_side_orig
    /\ rp_res_pixeldq' = unflag_slices(rp_res_pixeldq, pixeldq_orig)
    /\ rp_pixeldq' = IF rp_res_is_input
                     THEN unflag_slices(rp_res_pixeldq, pixeldq_orig)
                     ELSE rp_pixeldq
    /\ rp_pc' = "done"
    /\ UNCHANGED <<rpConfig, rp_res_is_input, pixeldq_orig, use_side_orig, rp_step_saw, rp_path>>
    /\ UNCHANGED <<maskVars, fitVars, outVars, procVars, satVars, lateVars>>

NextRefpix == DoRefpix \/ PseudoFlag \/ RefpixStep \/ RefpixStepRaises \/ PseudoUnflag

SpecRefpix == InitRefpix /\ [][NextRefpix]_vars

(***************************************************************************)
(* Specification SpecSat: one call of do_saturation.  The group DQ is a     *)
(* 4-D array indexed <<integration, group, y, x>>; the saturation step of   *)
(* the jwst package flags a pixel from the group in which it saturates on,  *)
(* grows that by its own n_pix_grow_sat over the full 3x3 neighbourhood,    *)
(* zeroes the saturated zero frames and returns its input model or a new    *)
(* one.                                                                     *)
(***************************************************************************)
RC == 14                  \* dqflags.pixel['RC'] = 2^14, as a bit position

SatInts == {1, 2}         \* values of nint
SatGroups == {1, 2}       \* values of ngroups
RcPixels == {{}, {<<0, 0>>}, {<<1, 1>>}}   \* RC pixels of the incoming model

\* the index set of an array of 3 or 4 axes
GridN(sh) ==
    IF Len(sh) = 3
    THEN (0 .. sh[1] - 1) \X (0 .. sh[2] - 1) \X (0 .. sh[3] - 1)
    ELSE (0 .. sh[1] - 1) \X (0 .. sh[2] - 1) \X (0 .. sh[3] - 1) \X (0 .. sh[4] - 1)

\* generate_binary_structure(rank, 1) for rank 3 and 4: the centre and its
\* neighbours along each single axis (binary_dilation's default structure
\* has the rank of its input)
cross_nd(rank) ==
    IF rank = 3
    THEN { o \in (-1 .. 1) \X (-1 .. 1) \X (-1 .. 1) :
             Abs(o[1]) + Abs(o[2]) + Abs(o[3]) <= 1 }
    ELSE { o \in (-1 .. 1) \X (-1 .. 1) \X (-1 .. 1) \X (-1 .. 1) :
             Abs(o[1]) + Abs(o[2]) + Abs(o[3]) + Abs(o[4]) <= 1 }

minus_nd(p, o) ==
    IF Len(p) = 3
    THEN <<p[1] - o[1], p[2] - o[2], p[3] - o[3]>>
    ELSE <<p[1] - o[1], p[2] - o[2], p[3] - o[3], p[4] - o[4]>>

dilate_once_nd(m, structure, sh) ==
    { p \in GridN(sh) : \E o \in structure : minus_nd(p, o) \in m }

RECURSIVE dilate_n_nd(_, _, _, _)
dilate_n_nd(m, structure, n, sh) ==
    IF n = 0 THEN m
    ELSE dilate_n_nd(dilate_once_nd(m, structure, sh), structure, n - 1, sh)

\* utils.expand_mask(bpmask, npix, grow_diagonal=False) on an array of 3 or 4 axes
expand_mask_nd(m, n, sh) ==
    IF n = 0 THEN m ELSE dilate_n_nd(m, cross_nd(Len(sh)), n, sh)

\* mask_rc = (input.pixeldq & dqflags.pixel['RC']) > 0
mask_rc_of(pixeldq) == { p \in DOMAIN pixeldq : RC \in pixeldq[p] }

\* mutant: the RC pixels flagged in the first group only
flag_rc_firstgroup(gdq, mask_rc) ==
    [q \in DOMAIN gdq |->
        IF <<q[3], q[4]>> \in mask_rc /\ q[2] = 0 THEN BitOr(gdq[q], SATURATED) ELSE gdq[q]]

\* input.groupdq | (mask_rc * SATURATED), the 2-D mask broadcast over
\* integrations and groups
flag_rc(gdq, mask_rc) ==
    [q \in DOMAIN gdq |->
        IF <<q[3], q[4]>> \in mask_rc THEN BitOr(gdq[q], SATURATED) ELSE gdq[q]]

\* (groupdq & dqflags.pixel['SATURATED']) > 0
mask_sat_of(gdq) == { q \in DOMAIN gdq : BitAnd(gdq[q], SATURATED) > 0 }

\* groupdq | (mask * SATURATED)
or_saturated(gdq, m) ==
    [q \in DOMAIN gdq |-> IF q \in m THEN BitOr(gdq[q], SATURATED) ELSE gdq[q]]

SatPixels == {<<0, 0>>, <<1, 1>>, <<1, 2>>}   \* pixels that may reach saturation

\* what the saturation step may find: nothing, or one pixel of one
\* integration saturating from some group on
StepFinds(sh) ==
    {{}} \cup { { q \in GridN(sh) : q[1] = s[1] /\ q[2] >= s[2] /\ q[3] = s[3] /\ q[4] = s[4] } :
                  s \in { t \in GridN(sh) : <<t[3], t[4]>> \in SatPixels } }

\* the step's own growth by n_pix_grow_sat: the full square around each
\* flagged pixel, within its group
step_grown(found, n, sh) ==
    { q \in GridN(sh) : \E f \in found :
          /\ q[1] = f[1] /\ q[2] = f[2]
          /\ Abs(q[3] - f[3]) <= n /\ Abs(q[4] - f[4]) <= n }

InitSat ==
    /\ MaskIdle /\ FitIdle /\ OutIdle /\ ProcIdle /\ RefpixIdle /\ LateIdle
    /\ \E ni \in SatInts, ngr \in SatGroups : sat_shape = <<ni, ngr, MaskDim, MaskDim>>
    /\ n_pix_grow_sat \in 0 .. MaxNpix
    /\ sat_grow_diagonal \in BOOLEAN
    /\ flag_rcsat \in BOOLEAN
    /\ zero_frame \in BOOLEAN
    /\ \E rc \in RcPixels :
          sat_pixeldq = [p \in Grid(<<MaskDim, MaskDim>>) |-> IF p \in rc THEN {RC} ELSE {}]
    /\ sat_groupdq = [q \in GridN(sat_shape) |-> IF q[2] = 0 THEN DO_NOT_USE ELSE 0]
    /\ sat_res_groupdq = None
    /\ sat_res_is_input = FALSE
    /\ sat_zeroframe = {}
    /\ npix_grow = 0
    /\ sat_pre = <<sat_groupdq, n_pix_grow_sat>>
    /\ sat_step_saw = None
    /\ sat_stepped = None
    /\ sat_pc = "call"

satConfig == <<sat_shape, sat_grow_diagonal, flag_rcsat, zero_frame, sat_pixeldq, sat_pre>>

\* mutant: the step always run with its own growth
default_run_always(diag, n) == TRUE

\* if self.saturation.grow_diagonal or npix_grow == 0:
default_run(diag, n) == diag \/ n = 0

\* do_saturation up to the call of the step
DoSaturation ==
    /\ sat_pc = "call"
    /\ npix_grow' = n_pix_grow_sat
    /\ sat_groupdq' = IF flag_rcsat
                      THEN flag_rc(sat_groupdq, mask_rc_of(sat_pixeldq))
                      ELSE sat_groupdq
    /\ n_pix_grow_sat' = IF default_run(sat_grow_diagonal, n_pix_grow_sat)
                         THEN n_pix_grow_sat
                         ELSE 0
    /\ sat_pc' = "step"
    /\ UNCHANGED <<satConfig, sat_res_groupdq, sat_res_is_input, sat_zeroframe, sat_step_saw,
                   sat_stepped>>
    /\ UNCHANGED <<maskVars, fitVars, outVars, procVars, rpVars, lateVars>>

\* res = self.run_step(self.saturation, input)
SaturationStep ==
    /\ sat_pc = "step"
    /\ \E found \in StepFinds(sat_shape), same \in BOOLEAN :
          LET flagged == step_grown(found, n_pix_grow_sat, sat_shape)
              out == or_saturated(sat_groupdq, flagged)
          IN  /\ sat_step_saw' = <<sat_groupdq, n_pix_grow_sat>>
              /\ sat_res_groupdq' = out
              /\ sat_stepped' = out
              /\ sat_res_is_input' = same
              /\ sat_groupdq' = IF same THEN out ELSE sat_groupdq
              /\ sat_zeroframe' = IF zero_frame
                                  THEN { <<q[1], q[3], q[4]>> : q \in { f \in flagged : f[2] = 0 } }
                                  ELSE {}
    /\ sat_pc' = IF default_run(sat_grow_diagonal, npix_grow) THEN "done" ELSE "grow"
    /\ UNCHANGED <<satConfig, n_pix_grow_sat, npix_grow>>
    /\ UNCHANGED <<maskVars, fitVars, outVars, procVars, rpVars, lateVars>>

\* do_saturation after the zero-growth run: the non-diagonal growth
SatGrow ==
    /\ sat_pc = "grow"
    /\ n_pix_grow_sat' = npix_grow
    /\ LET mask_sat == expand_mask_nd(mask_sat_of(sat_groupdq), npix_grow, sat_shape)
           out == or_saturated(sat_res_groupdq, mask_sat)
           zsh == <<sat_shape[1], sat_shape[3], sat_shape[4]>>
           zmask == sat_zeroframe \cup
                    (IF flag_rcsat
                     THEN { z \in GridN(zsh) : <<z[2], z[3]>> \in mask_rc_of(sat_pixeldq) }
                     ELSE {})
       IN  /\ sat_res_groupdq' = out
           /\ sat_groupdq' = IF sat_res_is_input THEN out ELSE sat_groupdq
           /\ sat_zeroframe' = IF zero_frame
                               THEN expand_mask_nd(zmask, npix_grow, zsh)
                               ELSE sat_zeroframe
    /\ sat_pc' = "done"
    /\ UNCHANGED <<satConfig, sat_res_is_input, npix_grow, sat_step_saw, sat_stepped>>
    /\ UNCHANGED <<maskVars, fitVars, outVars, procVars, rpVars, lateVars>>

NextSat == DoSaturation \/ SaturationStep \/ SatGrow

SpecSat == InitSat /\ [][NextSat]_vars

(***************************************************************************)
(* Specification SpecObs: run_obs over a database of concatenations, each   *)
(* a list of FITS files, calling run_single_file on the stage 0 files.      *)
(* pipeline.run either returns or raises an Exception.                      *)
(***************************************************************************)
NKeys == {1, 2}           \* numbers of concatenations in the database
NFiles == {1, 2}          \* numbers of FITS files of a concatenation
FileKinds == [datamodl : {"STAGE0", "STAGE1"}, exists : BOOLEAN]
FileLists == UNION { [1 .. n -> FileKinds] : n \in NFiles }
Databases == UNION { [1 .. n -> FileLists] : n \in NKeys }

\* the loops "for i in itervals: ... for j in jtervals:": the indices after
\* <<k, f>>, or <<0, 0>> when both loops are exhausted
next_file(db, k, f) ==
    IF f < Len(db[k]) THEN <<k, f + 1>>
    ELSE IF k < Len(db) THEN <<k + 1, 1>>
    ELSE <<0, 0>>

\* if os.path.isfile(fitsout_path) and not overwrite: (skip) else: run_single_file
is_processed(file, ow) == file.datamodl = "STAGE0" /\ ~(file.exists /\ ~ow)

\* mutant: closeout in the success path only
closeout_runs_on_success(raised) == ~raised

\* finally: pipeline.closeout()
closeout_runs(raised) == TRUE

\* except Exception as e: raise RuntimeError(...)
reraised(raised) == IF raised THEN "RuntimeError" ELSE "none"

InitObs ==
    /\ MaskIdle /\ FitIdle /\ OutIdle /\ ProcIdle /\ RefpixIdle /\ SatIdle
    /\ RunStepIdle /\ CorrIdle
    /\ database \in Databases
    /\ overwrite \in BOOLEAN
    /\ key_ix = 1
    /\ file_ix = 1
    /\ run_raised = FALSE
    /\ events = <<>>
    /\ surfaced = "none"
    /\ obs_pc = "loop"

\* the loop position moves on, or the loops end
ObsAdvance ==
    LET nxt == next_file(database, key_ix, file_ix)
    IN  /\ key_ix' = nxt[1]
        /\ file_ix' = nxt[2]
        /\ obs_pc' = IF nxt = <<0, 0>> THEN "done" ELSE "loop"

\* run_obs: the body of the inner loop up to the call of run_single_file
ObsLoop ==
    /\ obs_pc = "loop"
    /\ LET file == database[key_ix][file_ix]
       IN  IF file.datamodl # "STAGE0"
           THEN /\ ObsAdvance                     \* continue
                /\ UNCHANGED events
           ELSE IF ~is_processed(file, overwrite)
           THEN /\ ObsAdvance
                /\ events' = Append(events, <<"update_obs", key_ix, file_ix>>)
           ELSE /\ obs_pc' = "run"
                /\ UNCHANGED <<key_ix, file_ix, events>>
    /\ UNCHANGED <<database, overwrite, run_raised, surfaced>>
    /\ UNCHANGED <<maskVars, fitVars, outVars, earlyVars, rsVars, corrVars>>

\* run_single_file: try: res = pipeline.run(fitspath)
SingleRun ==
    /\ obs_pc = "run"
    /\ events' = Append(events, <<"run", key_ix, file_ix>>)
    /\ run_raised' \in BOOLEAN
    /\ obs_pc' = "finally"
    /\ UNCHANGED <<database, overwrite, key_ix, file_ix, surfaced>>
    /\ UNCHANGED <<maskVars, fitVars, outVars, earlyVars, rsVars, corrVars>>

\* run_single_file: except / finally, and run_obs after the call: there is
\* no handler in run_obs, so the RuntimeError leaves both loops
SingleCloseout ==
    /\ obs_pc = "finally"
    /\ LET closed == IF closeout_runs(run_raised)
                     THEN Append(events, <<"closeout", key_ix, file_ix>>)
                     ELSE events
       IN  IF run_raised
           THEN /\ events' = closed
                /\ surfaced' = reraised(run_raised)
                /\ obs_pc' = "aborted"
                /\ UNCHANGED <<key_ix, file_ix>>
           ELSE /\ events' = Append(closed, <<"update_obs", key_ix, file_ix>>)
                /\ ObsAdvance
                /\ UNCHANGED surfaced
    /\ run_raised' = FALSE
    /\ UNCHANGED <<database, overwrite>>
    /\ UNCHANGED <<maskVars, fitVars, outVars, earlyVars, rsVars, corrVars>>

NextObs == ObsLoop \/ SingleRun \/ SingleCloseout

SpecObs == InitObs /\ [][NextObs]_vars

(***************************************************************************)
(* Specification SpecRunStep: one call of run_step.  The step called is     *)
(* of the jwst package: it reports COMPLETE or SKIPPED in the result's      *)
(* cal_step entry and returns one model or, for ramp_fit, a pair.           *)
(***************************************************************************)
StepNames == {"group_scale", "gain_scale", "jump", "ramp_fit"}
SaveArgs == {"None", "True", "False"}

\* mutant: save_intermediates tested before the save_results argument
really_save_intermediates_first(skip, arg, intermediates, flag) ==
    IF skip THEN FALSE
    ELSE IF intermediates THEN TRUE
    ELSE IF arg # "None" THEN arg = "True"
    ELSE flag

\* lines 212-226: the if / elif chain setting really_save_results
really_save(skip, arg, intermediates, flag) ==
    IF skip THEN FALSE
    ELSE IF arg # "None" THEN arg = "True"
    ELSE IF intermediates THEN TRUE
    ELSE IF flag THEN TRUE
    ELSE FALSE

\* lines 235-240: group_scale or gain_scale reporting SKIPPED
reports_skipped(step, status) ==
    \/ step = "group_scale" /\ status = "SKIPPED"
    \/ step = "gain_scale" /\ status = "SKIPPED"

\* lines 245-249: the suffix endings of the products saved
saved_products(paired) == IF paired THEN <<"0", "1">> ELSE <<"">>

InitRunStep ==
    /\ MaskIdle /\ FitIdle /\ OutIdle /\ ProcIdle /\ RefpixIdle /\ SatIdle
    /\ ObsIdle /\ CorrIdle
    /\ rs_step \in StepNames
    /\ rs_skip \in BOOLEAN
    /\ rs_arg \in SaveArgs
    /\ save_intermediates \in BOOLEAN
    /\ rs_save_results \in BOOLEAN
    /\ step_save_orig = FALSE
    /\ really_save_results = FALSE
    /\ rs_status = "none"
    /\ rs_paired = FALSE
    /\ rs_saved = <<>>
    /\ rs_pre = rs_save_results
    /\ rs_step_saw = None
    /\ rs_pc = "call"

rsConfig == <<rs_step, rs_skip, rs_arg, save_intermediates, rs_pre>>

\* run_step up to the call of the step (lines 211-230)
RunStepEnter ==
    /\ rs_pc = "call"
    /\ really_save_results' = really_save(rs_skip, rs_arg, save_intermediates, rs_save_results)
    /\ step_save_orig' = rs_save_results
    /\ rs_save_results' = FALSE
    /\ rs_pc' = "step"
    /\ UNCHANGED <<rsConfig, rs_status, rs_paired, rs_saved, rs_step_saw>>
    /\ UNCHANGED <<maskVars, fitVars, outVars, earlyVars, obsVars, corrVars>>

\* res = step_obj(input): a skipped step reports SKIPPED; only a ramp fit
\* that ran returns a pair
RunStepCall ==
    /\ rs_pc = "step"
    /\ rs_step_saw' = <<rs_save_results>>
    /\ rs_status' \in IF rs_skip THEN {"SKIPPED"} ELSE {"COMPLETE", "SKIPPED"}
    /\ rs_paired' \in IF rs_step = "ramp_fit" /\ ~rs_skip THEN BOOLEAN ELSE {FALSE}
    /\ rs_pc' = "save"
    /\ UNCHANGED <<rsConfig, rs_save_results, step_save_orig, really_save_results, rs_saved>>
    /\ UNCHANGED <<maskVars, fitVars, outVars, earlyVars, obsVars, corrVars>>

\* run_step after the step has returned (lines 232-251)
RunStepSave ==
    /\ rs_pc = "save"
    /\ rs_save_results' = step_save_orig
    /\ LET really == IF reports_skipped(rs_step, rs_status) THEN FALSE ELSE really_save_results
       IN  /\ really_save_results' = really
           /\ rs_saved' = IF really THEN saved_products(rs_paired) ELSE <<>>
    /\ rs_pc' = "done"
    /\ UNCHANGED <<rsConfig, step_save_orig, rs_status, rs_paired, rs_step_saw>>
    /\ UNCHANGED <<maskVars, fitVars, outVars, earlyVars, obsVars, corrVars>>

NextRunStep == RunStepEnter \/ RunStepCall \/ RunStepSave

SpecRunStep == InitRunStep /\ [][NextRunStep]_vars

(***************************************************************************)
(* Specification SpecFnoise: the kTC and 1/f corrections of process        *)
(* (subtract_ktc, then subtract_fnoise) on two exposures in turn.  The     *)
(* content of the ramp is followed as a token, [exposure, ktc], that       *)
(* changes whenever input.data is rewritten before the stripe removal.     *)
(***************************************************************************)
FrameSizes == {4, 8}        \* values of ny and of nx
OutputCounts == {1, 4}      \* values of input.meta.exposure.noutputs
FnoiseInts == {1, 2}        \* values of nints
FnoiseGroups == {1, 2}      \* values of ngroups

\* mutant: _fit_slopes hands back the result of the call before, if there was one
fit_slopes_cached(fits, caller, ramp) ==
    IF fits # <<>> THEN fits[Len(fits)] ELSE [caller |-> caller, ramp |-> ramp]

\* _fit_slopes(input): slopes and biases fitted to the data handed in
fit_slopes(fits, caller, ramp) == [caller |-> caller, ramp |-> ramp]

\* assert noutputs == 4 for full frame data, noutputs == 1 for subarray data
outputs_ok(name, noutputs) == IF is_full_frame(name) THEN noutputs = 4 ELSE noutputs = 1

\* chsize = ny // noutputs
chsize_of(ny, nx, noutputs) == ny \div noutputs

\* the columns x1:x2 with x1 = int(ch*chsize), x2 = int(x1 + chsize)
channel_cols(ch, chsize, nx) == py_slice(ch * chsize, ch * chsize + chsize, nx)

\* the loop indices after <<a, b, ch>>, <<0, 0, 0>> with the flag FALSE when the loops end
next_channel(idx, nints, ngroups, noutputs) ==
    IF idx[3] + 1 < noutputs THEN <<TRUE, <<idx[1], idx[2], idx[3] + 1>>>>
    ELSE IF idx[2] + 1 < ngroups THEN <<TRUE, <<idx[1], idx[2] + 1, 0>>>>
    ELSE IF idx[1] + 1 < nints THEN <<TRUE, <<idx[1] + 1, 0, 0>>>>
    ELSE <<FALSE, <<0, 0, 0>>>>

\* nothing subtracted yet from any column of any group frame
fresh_subtracted(nints, ngroups, nx) ==
    [k \in (0 .. nints - 1) \X (0 .. ngroups - 1) \X (0 .. nx - 1) |-> <<>>]

fresh_model_from(nints, ngroups, noutputs) ==
    [k \in (0 .. nints - 1) \X (0 .. ngroups - 1) \X (0 .. noutputs - 1) |-> {}]

fnOthers == <<maskVars, fitVars, outVars, earlyVars, obsVars, rsVars, ktVars>>

InitFnoise ==
    /\ MaskIdle /\ FitIdle /\ OutIdle /\ ProcIdle /\ RefpixIdle /\ SatIdle
    /\ ObsIdle /\ RunStepIdle /\ KtcIdle
    /\ fn_subarray \in SubarrayNames
    /\ fn_noutputs \in OutputCounts
    /\ fn_ny \in FrameSizes
    /\ fn_nx \in FrameSizes
    /\ fn_nints \in FnoiseInts
    /\ fn_ngroups \in FnoiseGroups
    /\ fn_rk \in BOOLEAN
    /\ fn_rf \in BOOLEAN
    /\ fn_exposure = 1
    /\ fn_ramp = [exposure |-> 1, ktc |-> FALSE]
    /\ fn_entry_ramp = NoRamp
    /\ fn_fits = <<>>
    /\ fn_mask_from = NoFit
    /\ fn_chsize = 0
    /\ fn_loop = <<0, 0, 0>>
    /\ fn_subtracted = fresh_subtracted(fn_nints, fn_ngroups, fn_nx)
    /\ fn_model_from = fresh_model_from(fn_nints, fn_ngroups, fn_noutputs)
    /\ fn_ran = FALSE
    /\ fn_pc = "ktc"

fnConfig == <<fn_subarray, fn_noutputs, fn_ny, fn_nx, fn_nints, fn_ngroups, fn_rk, fn_rf>>

\* if self.remove_ktc or self.remove_fnoise: input = self.subtract_ktc(input)
FnoiseKtc ==
    /\ fn_pc = "ktc"
    /\ IF ktc_enabled(fn_rk, fn_rf)
       THEN /\ fn_fits' = Append(fn_fits, fit_slopes(fn_fits, "subtract_ktc", fn_ramp))
            /\ fn_ramp' = [fn_ramp EXCEPT !.ktc = TRUE]
       ELSE UNCHANGED <<fn_fits, fn_ramp>>
    /\ fn_pc' = "fnoise"
    /\ UNCHANGED <<fnConfig, fn_exposure, fn_entry_ramp, fn_mask_from, fn_chsize, fn_loop,
                   fn_subtracted, fn_model_from, fn_ran>>
    /\ UNCHANGED fnOthers

\* if self.remove_fnoise: subtract_fnoise up to chsize = ny // noutputs
FnoiseEnter ==
    /\ fn_pc = "fnoise"
    /\ IF ~fnoise_enabled(fn_rk, fn_rf)
       THEN /\ fn_pc' = "done"
            /\ UNCHANGED <<fn_entry_ramp, fn_chsize, fn_ran>>
       ELSE IF ~outputs_ok(fn_subarray, fn_noutputs)
       THEN /\ fn_pc' = "raised"
            /\ fn_entry_ramp' = fn_ramp
            /\ UNCHANGED <<fn_chsize, fn_ran>>
       ELSE /\ fn_pc' = "fit"
            /\ fn_entry_ramp' = fn_ramp
            /\ fn_chsize' = chsize_of(fn_ny, fn_nx, fn_noutputs)
            /\ fn_ran' = TRUE
    /\ UNCHANGED <<fnConfig, fn_exposure, fn_ramp, fn_fits, fn_mask_from, fn_loop,
                   fn_subtracted, fn_model_from>>
    /\ UNCHANGED fnOthers

\* _, slope_arr = self._fit_slopes(input); signal_mask from robust.mean(slope_arr)
FnoiseFit ==
    /\ fn_pc = "fit"
    /\ LET fit == fit_slopes(fn_fits, "subtract_fnoise", fn_ramp)
       IN  /\ fn_fits' = Append(fn_fits, fit)
           /\ fn_mask_from' = fit
    /\ fn_loop' = <<0, 0, 0>>
    /\ fn_pc' = "channels"
    /\ UNCHANGED <<fnConfig, fn_exposure, fn_ramp, fn_entry_ramp, fn_chsize, fn_subtracted,
                   fn_model_from, fn_ran>>
    /\ UNCHANGED fnOthers

\* one pass of "for ch in range(noutputs)": the channel's model is fitted and subtracted
FnoiseChannel ==
    /\ fn_pc = "channels"
    /\ LET cols == channel_cols(fn_loop[3], fn_chsize, fn_nx)
           nxt == next_channel(fn_loop, fn_nints, fn_ngroups, fn_noutputs)
       IN  /\ fn_model_from' = [fn_model_from EXCEPT ![fn_loop] = cols]
           /\ fn_subtracted' =
                 [k \in DOMAIN fn_subtracted |->
                     IF k[1] = fn_loop[1] /\ k[2] = fn_loop[2] /\ k[3] \in cols
                     THEN Append(fn_subtracted[k], fn_loop[3])
                     ELSE fn_subtracted[k]]
           /\ fn_loop' = nxt[2]
           /\ fn_pc' = IF nxt[1] THEN "channels" ELSE "done"
    /\ UNCHANGED <<fnConfig, fn_exposure, fn_ramp, fn_entry_ramp, fn_fits, fn_mask_from,
                   fn_chsize, fn_ran>>
    /\ UNCHANGED fnOthers

\* run_obs goes on to the next file: a new pipeline object, a new ramp
FnoiseNextExposure ==
    /\ fn_pc = "done"
    /\ fn_exposure = 1
    /\ fn_exposure' = 2
    /\ fn_ramp' = [exposure |-> 2, ktc |-> FALSE]
    /\ fn_entry_ramp' = NoRamp
    /\ fn_mask_from' = NoFit
    /\ fn_chsize' = 0
    /\ fn_loop' = <<0, 0, 0>>
    /\ fn_subtracted' = fresh_subtracted(fn_nints, fn_ngroups, fn_nx)
    /\ fn_model_from' = fresh_model_from(fn_nints, fn_ngroups, fn_noutputs)
    /\ fn_ran' = FALSE
    /\ fn_pc' = "ktc"
    /\ UNCHANGED <<fnConfig, fn_fits>>
    /\ UNCHANGED fnOthers

NextFnoise ==
    \/ FnoiseKtc
    \/ FnoiseEnter
    \/ FnoiseFit
    \/ FnoiseChannel
    \/ FnoiseNextExposure

SpecFnoise == InitFnoise /\ [][NextFnoise]_vars

(***************************************************************************)
(* Specification SpecKtc: one call of subtract_ktc on an exposure of one   *)
(* or two integrations; cube_fit is applied to each integration in turn.   *)
(***************************************************************************)
KtcInts == {1, 2}           \* values of nints
KtcGroups == {1, 2, 3}      \* values of ngroups

\* the ramps a pixel may hold: rising by 1, flat, rising by 2 (crossing sat_frac*sat_vals)
KtcRamps(n) ==
    { [g \in 0 .. n - 1 |-> g], [g \in 0 .. n - 1 |-> 1], [g \in 0 .. n - 1 |-> 2 * g] }

KtcCubes(n) ==
    { [g \in 0 .. n - 1 |-> [p \in Pixels |-> r[p][g]]] : r \in [Pixels -> KtcRamps(n)] }

KtcGroupDQ(n) ==
    { [g \in 0 .. n - 1 |-> [p \in Pixels |-> dqc[p][g]]] : dqc \in [Pixels -> DQColumns(n)] }

KtcPixelDQ == { [p \in Pixels |-> {}], [p \in Pixels |-> IF p = 1 THEN {0} ELSE {}] }

\* cube_fit's loop "for i in np.arange(i0,nz)[::-1]" from index idx downwards
RECURSIVE cube_fit_scan(_, _, _, _, _, _)
cube_fit_scan(c, t, dat, sat, dq, idx) ==
    IF idx < i0
    THEN c
    ELSE LET ind == ind_of(c.cf, dat, sat, dq, idx)
             fit == [p \in Pixels |-> fit_pixel(t, dat, idx, p)]
         IN  cube_fit_scan(
                 [cf  |-> [d \in 0 .. deg |->
                             [p \in Pixels |-> IF p \in ind THEN fit[p][d + 1] ELSE c.cf[d][p]]],
                  den |-> [p \in Pixels |-> IF p \in ind THEN fit[p][3] ELSE c.den[p]]],
                 t, dat, sat, dq, idx - 1)

\* cf = cube_fit(tarr, data[i], bpmask_arr=bpmask_arr, sat_vals=sat_thresh, sat_frac=sat_frac)
cube_fit(t, dat, sat, dq, n) ==
    cube_fit_scan([cf  |-> [d \in 0 .. deg |-> [p \in Pixels |-> 0]],
                   den |-> [p \in Pixels |-> 1]],
                  t, dat, sat, dq, n - 1)

\* mutant: the bias of the first integration is subtracted from every integration
bias_of_first(arr, idx) == arr[1]

\* bias_arr[i]
bias_of(arr, idx) == arr[idx + 1]

ktOthers == <<maskVars, fitVars, outVars, earlyVars, obsVars, rsVars, fnVars>>

InitKtc ==
    /\ MaskIdle /\ FitIdle /\ OutIdle /\ ProcIdle /\ RefpixIdle /\ SatIdle
    /\ ObsIdle /\ RunStepIdle /\ FnoiseIdle
    /\ kt_nints \in KtcInts
    /\ kt_ngroups \in KtcGroups
    /\ kt_group_time \in GroupTimes
    /\ kt_data \in [0 .. kt_nints - 1 -> KtcCubes(kt_ngroups)]
    /\ kt_den = [a \in 0 .. kt_nints - 1 |-> [p \in Pixels |-> 1]]
    /\ kt_groupdq \in [0 .. kt_nints - 1 -> KtcGroupDQ(kt_ngroups)]
    /\ kt_pixeldq \in KtcPixelDQ
    /\ kt_sat \in [Pixels -> SatVals]
    /\ kt_bias_arr = <<>>
    /\ kt_i = 0
    /\ kt_pre = [data |-> kt_data, groupdq |-> kt_groupdq, pixeldq |-> kt_pixeldq]
    /\ kt_pc = "fit"

ktConfig == <<kt_nints, kt_ngroups, kt_group_time, kt_groupdq, kt_pixeldq, kt_sat, kt_pre>>

\* one pass of _fit_slopes' "for i in range(nints)": bias_arr.append(cf[0])
KtcFitSlopes ==
    /\ kt_pc = "fit"
    /\ LET fit == cube_fit(tarr_of(kt_ngroups, kt_group_time), kt_data[kt_i], kt_sat,
                           kt_groupdq[kt_i], kt_ngroups)
       IN  kt_bias_arr' = Append(kt_bias_arr, [p \in Pixels |-> <<fit.cf[0][p], fit.den[p]>>])
    /\ kt_i' = IF kt_i + 1 < kt_nints THEN kt_i + 1 ELSE 0
    /\ kt_pc' = IF kt_i + 1 < kt_nints THEN "fit" ELSE "subtract"
    /\ UNCHANGED <<ktConfig, kt_data, kt_den>>
    /\ UNCHANGED ktOthers

\* one pass of subtract_ktc's "for i in range(nints)": input.data[i] -= bias_arr[i]
KtcSubtract ==
    /\ kt_pc = "subtract"
    /\ LET b == bias_of(kt_bias_arr, kt_i)
       IN  /\ kt_data' = [kt_data EXCEPT ![kt_i] =
                            [g \in 0 .. kt_ngroups - 1 |->
                               [p \in Pixels |->
                                  kt_data[kt_i][g][p] * b[p][2] - b[p][1] * kt_den[kt_i][p]]]]
           /\ kt_den' = [kt_den EXCEPT ![kt_i] = [p \in Pixels |-> kt_den[kt_i][p] * b[p][2]]]
    /\ kt_i' = IF kt_i + 1 < kt_nints THEN kt_i + 1 ELSE 0
    /\ kt_pc' = IF kt_i + 1 < kt_nints THEN "subtract" ELSE "done"
    /\ UNCHANGED <<ktConfig, kt_bias_arr>>
    /\ UNCHANGED ktOthers

NextKtc == KtcFitSlopes \/ KtcSubtract

SpecKtc == InitKtc /\ [][NextKtc]_vars

(***************************************************************************)
(* Specification SpecOverrides: one call of do_saturation, of do_refpix or  *)
(* of run_step, the three places where a step parameter is overridden for   *)
(* the duration of a step call.                                             *)
(***************************************************************************)
InitOverrides == InitSat \/ InitRefpix \/ InitRunStep

NextOverrides == NextSat \/ NextRefpix \/ NextRunStep

SpecOverrides == InitOverrides /\ [][NextOverrides]_vars

(***************************************************************************)
(* Specification SpecMask: one call of expand_mask on an arbitrary mask     *)
(***************************************************************************)
InitMask ==
    /\ PipeIdle
    /\ FitIdle
    /\ OutIdle
    /\ shape \in (1 .. MaskDim) \X (1 .. MaskDim)
    /\ bpmask \in SUBSET Grid(shape)
    /\ npix \in 0 .. MaxNpix
    /\ grow_diagonal \in BOOLEAN
    /\ em_res = {}
    /\ em_pc = "call"

\* res = expand_mask(bpmask, npix, grow_diagonal); the caller's array is
\* never written: binary_dilation allocates its output.
ExpandMaskCall ==
    /\ em_pc = "call"
    /\ em_res' = expand_mask(bpmask, npix, grow_diagonal, shape)
    /\ em_pc' = "done"
    /\ UNCHANGED <<shape, bpmask, npix, grow_diagonal>>
    /\ UNCHANGED <<fitVars, outVars, pipeVars>>

NextMask == ExpandMaskCall

SpecMask == InitMask /\ [][NextMask]_vars

(***************************************************************************)
(* Claims about expand_mask (checked under SpecMask)                        *)
(***************************************************************************)
Manhattan(p, q) == Abs(p[1] - q[1]) + Abs(p[2] - q[2])
Chebyshev(p, q) ==
    IF Abs(p[1] - q[1]) >= Abs(p[2] - q[2]) THEN Abs(p[1] - q[1]) ELSE Abs(p[2] - q[2])

\* an isolated True pixel that has all of its 8 neighbours inside the array
SingleInterior ==
    \E q \in Grid(shape) :
        /\ bpmask = {q}
        /\ q[1] >= 1 /\ q[1] <= shape[1] - 2
        /\ q[2] >= 1 /\ q[2] <= shape[2] - 2

\* C1: expand_mask(m, 0, grow_diagonal) returns m unchanged, for every mask
\* and both values of grow_diagonal.
C1_Identity ==
    (em_pc = "done" /\ npix = 0) => em_res = bpmask

C1_Witness ==
    /\ em_pc = "done" /\ npix = 0 /\ grow_diagonal
    /\ bpmask # {} /\ bpmask # Grid(shape)
    /\ em_res = bpmask

\* C2: expand_mask only adds pixels (every True pixel of the input is True in
\* the result, for every n >= 0 and both values of grow_diagonal) and the
\* caller's mask is never modified.
C2_Superset ==
    /\ [](em_pc = "done" => bpmask \subseteq em_res)
    /\ [][bpmask' = bpmask]_vars

C2_Witness ==
    /\ em_pc = "done" /\ npix > 0
    /\ bpmask # {} /\ bpmask \subseteq em_res /\ em_res # bpmask

\* C3: for n > 0 and grow_diagonal = False the result is True exactly at the
\* in-bounds pixels within Manhattan distance n of a True input pixel; a
\* single interior True pixel with n = 1 gives exactly the 5-pixel cross.
C3_Diamond ==
    (em_pc = "done" /\ npix > 0 /\ ~grow_diagonal) =>
        /\ em_res = { p \in Grid(shape) : \E q \in bpmask : Manhattan(p, q) <= npix }
        /\ (SingleInterior /\ npix = 1) => Cardinality(em_res) = 5

C3_Witness ==
    /\ em_pc = "done" /\ npix = 1 /\ ~grow_diagonal
    /\ SingleInterior
    /\ Cardinality(em_res) = 5

\* C4: for n > 0 and grow_diagonal = True the result is one full 3x3
\* dilation of the radius-(n-1) diamond growth of the input (only the
\* outermost ring grows diagonally); a single interior True pixel with
\* n = 1 gives the 9-pixel 3x3 block.
C4_DiagonalLastRing ==
    (em_pc = "done" /\ npix > 0 /\ grow_diagonal) =>
        /\ em_res = { p \in Grid(shape) :
                        \E r \in Grid(shape) :
                            /\ Chebyshev(p, r) <= 1
                            /\ \E q \in bpmask : Manhattan(r, q) <= npix - 1 }
        /\ (SingleInterior /\ npix = 1) => Cardinality(em_res) = 9

C4_Witness ==
    /\ em_pc = "done" /\ npix = 2 /\ grow_diagonal
    /\ Cardinality(bpmask) = 1
    /\ em_res # Grid(shape)
    /\ \E p \in em_res : \A q \in bpmask : Manhattan(p, q) = 3

(***************************************************************************)
(* Claims about cube_fit and subtract_ktc (SpecFit, SpecLinear)             *)
(***************************************************************************)
\* sample g of pixel p is unmasked (no group DQ flag at or before g) and
\* below sat_frac x threshold; read while input.data still holds the counts
\* the fit was given
Valid(g, p) ==
    /\ \A k \in 0 .. g : groupdq[k][p] = 0
    /\ SatFracDen * data[g][p] < SatFracNum * sat_thresh[p]

NeverValid(p) == \A g \in Groups : ~Valid(g, p)

\* the coefficients of pixel p are exactly intercept b and slope sl
CoeffsAre(p, b, sl) ==
    /\ cf[0][p] = b * cf_den[p]
    /\ cf[1][p] = sl * cf_den[p]

\* pixel p holds b + sl*t at every group time, every group valid
LinearGood(p, b, sl) ==
    \A g \in Groups :
        /\ data[g][p] = b + sl * tarr_of(nz, group_time)[g]
        /\ Valid(g, p)

\* C5: whenever a pixel is fitted at group index i, every sample used for
\* the fit (groups 0..i) is unmasked and below sat_frac x threshold.
C5_OnlyValidSamples ==
    fit_pc \in {"loop", "fitted"} =>
        \A p \in Pixels : \A k \in 1 .. Len(fit_log[p]) :
            \A g \in 0 .. fit_log[p][k] : Valid(g, p)

\* C6: each pixel's coefficients are written at most once during the
\* backward scan, also when the fitted slope is exactly zero.
C6_FitOnce ==
    fit_pc \in {"loop", "fitted", "done"} =>
        \A p \in Pixels : Len(fit_log[p]) <= 1

\* C7 as stated: on a ramp whose pixels all hold bias + slope*t at every
\* group time, all groups valid, the fit returns exactly that bias and
\* slope for every pixel (any number of groups).
C7_LinearAnyLength ==
    fit_pc = "fitted" =>
        \A b \in [Pixels -> Biases], sl \in [Pixels -> Slopes] :
            (\A p \in Pixels : LinearGood(p, b[p], sl[p]))
                => \A p \in Pixels : CoeffsAre(p, b[p], sl[p])

\* C7 amended: the same for ramps of at least two groups.
C7_LinearRecovered ==
    (fit_pc = "fitted" /\ nz >= 2) =>
        \A b \in [Pixels -> Biases], sl \in [Pixels -> Slopes] :
            (\A p \in Pixels : LinearGood(p, b[p], sl[p]))
                => \A p \in Pixels : CoeffsAre(p, b[p], sl[p])

C7_Witness ==
    /\ fit_pc = "fitted" /\ nz = MaxGroups /\ group_time = 1
    /\ \A p \in Pixels : LinearGood(p, 100, 10) /\ CoeffsAre(p, 100, 10)
    /\ \A p \in Pixels : cf_den[p] > 1

\* C8: a pixel valid exactly at groups 0..k (k >= 1) is fitted with exactly
\* the groups 0..k; a pixel valid at every group (k = nz-1) with all groups.
C8_FitUsesValidPrefix ==
    fit_pc = "fitted" =>
        \A p \in Pixels : \A k \in 1 .. nz - 1 :
            (\A g \in Groups : Valid(g, p) <=> g <= k) => fit_log[p] = <<k>>

\* C9: a pixel that is masked or above threshold at every group is never
\* fitted and keeps bias = 0 and slope = 0, and subtract_ktc leaves its
\* counts unchanged.
C9_NeverValidUntouched ==
    /\ [](fit_pc \in {"loop", "fitted"} =>
            \A p \in Pixels :
                NeverValid(p) => /\ fit_log[p] = <<>>
                                 /\ cf[0][p] = 0 /\ cf[1][p] = 0)
    /\ [][(fit_pc = "fitted" /\ fit_pc' = "done") =>
            \A p \in Pixels :
                NeverValid(p) => /\ data_den'[p] = data_den[p]
                                 /\ \A g \in Groups : data'[g][p] = data[g][p]]_vars

C9_Witness ==
    /\ fit_pc = "done" /\ nz >= 2
    /\ \E p, q \in Pixels :
          /\ data_den[p] = 1 /\ NeverValid(p) /\ fit_log[p] = <<>>
          /\ \E g \in Groups : data[g][p] # 0 /\ groupdq[g][p] # 0
          /\ cf[0][p] = 0 /\ cf[1][p] = 0
          /\ fit_log[q] # <<>> /\ cf[0][q] # 0

(***************************************************************************)
(* Claims about apply_rateint_outliers (SpecOutlier)                        *)
(***************************************************************************)
HasBit(v, b) == (v \div b) % 2 = 1

FlagBits == {1, 2, 4, 8, 16, 32, 64, 128}

\* C10: for an outlier mask of shape [nint, ny, nx] with a single True entry
\* at (i, y, x), the call sets DO_NOT_USE and JUMP_DET at (i, g, y, x) for
\* every group g and changes no other bit of any group DQ entry; ramp counts
\* and rate data are unchanged; no DQ bit is ever cleared.
C10_SingleOutlier ==
    [][out_pc' = "done" =>
        /\ ramp_data' = ramp_data
        /\ rateints_data' = rateints_data
        /\ \A ii \in Ints, g \in DQGroups, p \in Pixels, b \in FlagBits :
              HasBit(ramp_groupdq[ii][g][p], b) => HasBit(ramp_groupdq'[ii][g][p], b)
        /\ \A oi \in Ints, op \in Pixels :
              indbad' = {<<oi, op>>} =>
                \A ii \in Ints, g \in DQGroups, p \in Pixels, b \in FlagBits :
                    HasBit(ramp_groupdq'[ii][g][p], b) <=>
                        \/ HasBit(ramp_groupdq[ii][g][p], b)
                        \/ (ii = oi /\ p = op /\ b \in {DO_NOT_USE, JUMP_DET})
    ]_vars

C10_Witness ==
    /\ out_pc = "done" /\ nint = MaxInts /\ ng = MaxGroups
    /\ \E oi \in Ints, op \in Pixels :
          /\ indbad = {<<oi, op>>}
          /\ \A g \in DQGroups :
                ramp_groupdq[oi][g][op] = DO_NOT_USE + SATURATED + JUMP_DET
          /\ \E ii \in Ints, g \in DQGroups, p \in Pixels :
                ramp_groupdq[ii][g][p] = SATURATED

\* C11: for the MIR family the detection runs on the rate cube without its
\* first integration and the mask of each remaining integration is OR-ed
\* into all groups of the corresponding ramp integration; the call returns
\* the updated ramp without error for every nint >= 2.
C11_MiriPropagates ==
    (out_pc \in {"done", "error"} /\ inst = "MIRI" /\ nint >= 2) =>
        /\ out_pc = "done"
        /\ \A e \in indbad : \A g \in DQGroups :
              /\ HasBit(ramp_groupdq[e[1] + 1][g][e[2]], DO_NOT_USE)
              /\ HasBit(ramp_groupdq[e[1] + 1][g][e[2]], JUMP_DET)

(***************************************************************************)
(* Claims about process (SpecProcess)                                       *)
(***************************************************************************)
Positions(name) == { n \in 1 .. Len(calls) : calls[n] = name }

AfterFit == {"outliers", "refit", "gain_rate", "gain_ints", "done", "error"}

\* C12: the outlier propagator runs only after the first ramp fit and only
\* if rate_int_outliers is set and that fit produced a rateints product; a
\* second ramp fit happens only after the propagator returned, otherwise the
\* first fit's results are kept; ramp_fit is invoked at most twice.
C12_OutlierRetry ==
    /\ \A n \in Positions("apply_rateint_outliers") :
          /\ \E m \in Positions("ramp_fit") : m < n
          /\ rate_int_outliers
          /\ rateints = <<"rateints", 1>>
    /\ Cardinality(Positions("ramp_fit")) <= 2
    /\ \A n, m \in Positions("ramp_fit") :
          n < m => /\ \E a \in Positions("apply_rateint_outliers") : n < a /\ a < m
                   /\ proc_pc # "error"
    /\ (proc_pc \in {"gain_rate", "gain_ints", "done"}
            /\ Cardinality(Positions("ramp_fit")) = 1)
          => (input = rate /\ ints_model = rateints)

C12_Witness ==
    /\ proc_pc = "done"
    /\ Cardinality(Positions("ramp_fit")) = 2
    /\ Cardinality(Positions("apply_rateint_outliers")) = 1
    /\ input = <<"rate", 2>> /\ ints_model = <<"rateints", 2>>

\* C18: for a MIRI exposure neither subtract_ktc nor subtract_fnoise is ever
\* invoked, whatever remove_ktc and remove_fnoise are.
C18_MirNoBiasStripe ==
    instrument_name = "MIRI" =>
        (Positions("subtract_ktc") = {} /\ Positions("subtract_fnoise") = {})

C18_Witness ==
    /\ proc_pc = "done" /\ instrument_name = "MIRI"
    /\ remove_ktc /\ remove_fnoise
    /\ Positions("subtract_ktc") = {} /\ Positions("ramp_fit") # {}

\* C19 as stated: on the non-MIR branch bias removal runs exactly when
\* remove_ktc is set and stripe removal exactly when remove_fnoise is set.
C19_IndependentSwitches ==
    (instrument_name # "MIRI" /\ proc_pc \in {"ramp_fit"} \cup AfterFit) =>
        /\ (Positions("subtract_ktc") # {}) <=> remove_ktc
        /\ (Positions("subtract_fnoise") # {}) <=> remove_fnoise

\* C19 amended: bias removal runs exactly when remove_ktc or remove_fnoise
\* is set, stripe removal exactly when remove_fnoise is set.
C19_CoupledSwitches ==
    (instrument_name # "MIRI" /\ proc_pc \in {"ramp_fit"} \cup AfterFit) =>
        /\ (Positions("subtract_ktc") # {}) <=> (remove_ktc \/ remove_fnoise)
        /\ (Positions("subtract_fnoise") # {}) <=> remove_fnoise

C19_Witness ==
    /\ proc_pc = "done" /\ instrument_name = "NIRCAM"
    /\ ~remove_ktc /\ remove_fnoise
    /\ Positions("subtract_ktc") # {} /\ Positions("subtract_fnoise") # {}

StandardStages ==
    {"group_scale", "dq_init", "saturation", "do_saturation", "ipc", "superbias",
     "firstframe", "lastframe", "reset", "linearity", "rscd", "persistence",
     "dark_current"}

PostRefpixNir == {"linearity", "persistence", "dark_current"}

\* the place of the n-th call in the stated order; the retry of the ramp
\* fit has a place of its own after the outlier recheck
StageRank(n) ==
    LET name == calls[n] IN
    IF name \in StandardStages THEN 1
    ELSE IF name = "do_refpix" THEN 2
    ELSE IF name \in {"charge_migration", "jump"} THEN 3
    ELSE IF name = "subtract_ktc" THEN 4
    ELSE IF name = "subtract_fnoise" THEN 5
    ELSE IF name = "ramp_fit" THEN (IF \E m \in Positions("ramp_fit") : m < n THEN 8 ELSE 6)
    ELSE IF name = "apply_rateint_outliers" THEN 7
    ELSE 9

\* the same, with linearity, persistence and dark current of the non-MIR
\* branch placed after the reference-pixel fix
StageRankByBranch(n) ==
    IF instrument_name # "MIRI" /\ calls[n] \in PostRefpixNir THEN 3 ELSE StageRank(n)

NoStageRevisited ==
    \A n, m \in 1 .. Len(calls) :
        (n < m /\ calls[n] = calls[m]) => calls[n] \in {"ramp_fit", "gain_scale"}

\* C20 as stated: on both branches every standard correction precedes the
\* reference-pixel fix, only charge migration and jump lie between it and
\* bias removal, then stripe removal, ramp fit, outlier recheck, optional
\* re-fit and gain scale; no stage is revisited except the ramp-fit retry.
C20_StageOrder ==
    /\ \A n, m \in 1 .. Len(calls) : n < m => StageRank(n) <= StageRank(m)
    /\ NoStageRevisited
    /\ Cardinality(Positions("ramp_fit")) <= 2

\* C20 amended: the stated order holds on the MIR branch; on the non-MIR
\* branch linearity, persistence and dark current also lie between the
\* reference-pixel fix and charge migration.
C20_StageOrderByBranch ==
    /\ \A n, m \in 1 .. Len(calls) :
          n < m => StageRankByBranch(n) <= StageRankByBranch(m)
    /\ \A n \in Positions("charge_migration"), m \in 1 .. Len(calls) :
          calls[m] \in PostRefpixNir => m < n
    /\ NoStageRevisited
    /\ Cardinality(Positions("ramp_fit")) <= 2

C20_Witness ==
    /\ proc_pc = "done" /\ instrument_name = "NIRCAM"
    /\ remove_ktc /\ remove_fnoise
    /\ Cardinality(Positions("ramp_fit")) = 2
    /\ Cardinality(Positions("gain_scale")) = 2
    /\ \E n \in Positions("do_refpix"), m \in Positions("linearity") : n < m

(***************************************************************************)
(* Claims about do_refpix and do_pseudo_refpix (SpecRefpix)                 *)
(***************************************************************************)
\* the border requested by the six parameters, in array coordinates
InBorder(p) ==
    LET ny == rp_shape[1]
        nx == rp_shape[2]
    IN  \/ nlower > 0 /\ nrow_off <= p[1] /\ p[1] < nrow_off + nlower
        \/ nupper > 0 /\ ny - nrow_off - nupper <= p[1] /\ p[1] < ny - nrow_off
        \/ nleft > 0 /\ ncol_off <= p[2] /\ p[2] < ncol_off + nleft
        \/ nright > 0 /\ nx - ncol_off - nright <= p[2] /\ p[2] < nx - ncol_off

\* C13: after do_pseudo_refpix every pixel inside the requested border has
\* its pre-call DQ word (the added REFERENCE_PIXEL bit removed, every other
\* bit kept) and every pixel outside it is bit-identical to its pre-call
\* word, the refpix step itself leaving the pixel DQ alone.
C13_RoundTrip ==
    (rp_pc = "done" /\ rp_path = "pseudo") =>
        \A p \in Grid(rp_shape) :
            /\ rp_res_pixeldq[p] = rp_pre[1][p]
            /\ InBorder(p) => REFERENCE_PIXEL \in rp_step_saw[1][p]

C13_Witness ==
    /\ rp_pc = "done" /\ rp_path = "pseudo"
    /\ \E p, q \in Grid(rp_shape) :
          /\ InBorder(p) /\ rp_pre[1][p] = {0}
          /\ rp_step_saw[1][p] = {0, REFERENCE_PIXEL}
          /\ rp_res_pixeldq[p] = {0}
          /\ ~InBorder(q)

PathChosen == rp_pc \in {"flag", "step", "unflag", "done"}

IsSat(gdq, q) == (gdq[q] \div 2) % 2 = 1

GrownRun == sat_pc = "done" /\ ~sat_grow_diagonal /\ npix_grow > 0

NearInFrame(q, f, n) ==
    /\ q[1] = f[1] /\ q[2] = f[2]
    /\ Abs(q[3] - f[3]) + Abs(q[4] - f[4]) <= n

\* C15: non-diagonal growth is purely spatial: a SATURATED flag added by
\* the growth at <<i, g, y, x>> has a pixel flagged SATURATED before the
\* growth in the same integration and the same group within Manhattan
\* distance n_pix_grow_sat of <<y, x>>.
C15_GrowthSpatial ==
    GrownRun =>
        \A q \in GridN(sat_shape) :
            (IsSat(sat_res_groupdq, q) /\ ~IsSat(sat_stepped, q)) =>
                \E f \in GridN(sat_shape) :
                    IsSat(sat_stepped, f) /\ NearInFrame(q, f, npix_grow)

\* C16: with grow_diagonal false and n > 0, every pixel within 4-connected
\* distance n of a pixel the zero-growth step flagged SATURATED is flagged
\* SATURATED in the returned model, whether the step changed its input or
\* returned a new model.
C16_GrowsStepMask ==
    GrownRun =>
        \A f, q \in GridN(sat_shape) :
            (IsSat(sat_stepped, f) /\ NearInFrame(q, f, npix_grow)) =>
                IsSat(sat_res_groupdq, q)

\* C17: with flag_rcsat every pixel whose pixel DQ has the RC bit is flagged
\* SATURATED in every group of every integration of the group DQ the
\* saturation step is invoked with; without flag_rcsat the step is invoked
\* with the incoming group DQ.
C17_RcBeforeStep ==
    sat_pc \in {"grow", "done"} =>
        IF flag_rcsat
        THEN \A q \in GridN(sat_shape) :
                IF RC \in sat_pixeldq[<<q[3], q[4]>>]
                THEN IsSat(sat_step_saw[1], q)
                ELSE sat_step_saw[1][q] = sat_pre[1][q]
        ELSE sat_step_saw[1] = sat_pre[1]

C17_Witness ==
    /\ sat_pc = "done" /\ flag_rcsat
    /\ sat_shape[1] = 2 /\ sat_shape[2] = 2
    /\ \E p \in DOMAIN sat_pixeldq : RC \in sat_pixeldq[p]
    /\ \A q \in GridN(sat_shape) :
          RC \in sat_pixeldq[<<q[3], q[4]>>] =>
              (IsSat(sat_step_saw[1], q) /\ ~IsSat(sat_pre[1], q))

(***************************************************************************)
(* Claims about the result of process (SpecProcess)                         *)
(***************************************************************************)
\* C21 as stated: a run of process that reaches its end returns a rate
\* image, never an absent result, and whenever a per-integration cube
\* exists gain scale has been run on the rate image and on the cube, once
\* each, the rate image first.
C21_AlwaysRate ==
    proc_pc = "done" =>
        /\ input # None
        /\ ints_model # None => gain_log = <<"rate", "rateints">>

\* C21 amended: a run that reaches its end returns the rate product of its
\* last ramp fit, which is absent when that fit returned none; gain scale
\* has been run once on the rate image if it is present and then once on
\* the per-integration cube if it is present, and on nothing else.
C21_RateOrAbsent ==
    proc_pc = "done" =>
        /\ input \in {None, <<"rate", Cardinality(Positions("ramp_fit"))>>}
        /\ ints_model \in {None, <<"rateints", Cardinality(Positions("ramp_fit"))>>}
        /\ gain_log = (IF input = None THEN <<>> ELSE <<"rate">>)
                         \o (IF ints_model = None THEN <<>> ELSE <<"rateints">>)
        /\ Cardinality(Positions("gain_scale")) = Len(gain_log)

C21_Witness ==
    /\ proc_pc = "done"
    /\ input = None /\ ints_model = None
    /\ Positions("ramp_fit") # {}
    /\ gain_log = <<>>

\* C22: an exposure of an unsupported instrument makes process fail before
\* any correction step has run on the ramp; it goes through neither branch.
C22_UnsupportedFails ==
    instrument_name \notin {"MIRI", "NIRCAM", "NIRSPEC"} => calls = <<>>

(***************************************************************************)
(* Claims about run_obs and run_single_file (SpecObs)                       *)
(***************************************************************************)
FilesOf == { kf \in NKeys \X NFiles :
               kf[1] <= Len(database) /\ kf[2] <= Len(database[kf[1]]) }

EventsOf(name, kf) == { n \in 1 .. Len(events) : events[n] = <<name, kf[1], kf[2]>> }

ToProcess(kf) ==
    LET file == database[kf[1]][kf[2]]
    IN  file.datamodl = "STAGE0" /\ (overwrite \/ ~file.exists)

\* C23: a fatal error while processing one exposure aborts that exposure
\* only; every exposure after it in the database is still processed and
\* recorded by the time run_obs has ended.
C23_OthersStillProcessed ==
    obs_pc \in {"done", "aborted"} =>
        \A kf \in FilesOf :
            (ToProcess(kf) /\ kf # <<key_ix, file_ix>>) =>
                (EventsOf("run", kf) # {} /\ EventsOf("update_obs", kf) # {})

\* C24: run_single_file does not swallow a failure of pipeline.run, which
\* leaves it as a RuntimeError, and pipeline.closeout() is called exactly
\* once per call, right after the run has ended, on success and on failure.
C24_CloseoutOnce ==
    /\ \A kf \in FilesOf :
          /\ Cardinality(EventsOf("run", kf)) <= 1
          /\ \A n \in EventsOf("run", kf) :
                IF n = Len(events)
                THEN obs_pc = "finally" /\ EventsOf("closeout", kf) = {}
                ELSE EventsOf("closeout", kf) = {n + 1}
          /\ EventsOf("closeout", kf) # {} => EventsOf("run", kf) # {}
    /\ surfaced \in {"none", "RuntimeError"}
    /\ surfaced = "RuntimeError" <=> obs_pc = "aborted"
    /\ obs_pc = "aborted" =>
          /\ events[Len(events)] = <<"closeout", key_ix, file_ix>>
          /\ EventsOf("update_obs", <<key_ix, file_ix>>) = {}

C24_Witness ==
    /\ obs_pc = "aborted" /\ surfaced = "RuntimeError"
    /\ Cardinality(EventsOf("closeout", <<key_ix, file_ix>>)) = 1
    /\ \E kf \in FilesOf :
          /\ kf # <<key_ix, file_ix>>
          /\ Cardinality(EventsOf("closeout", kf)) = 1
          /\ EventsOf("update_obs", kf) # {}

(***************************************************************************)
(* Claims about failures inside do_pseudo_refpix (SpecRefpix)               *)
(***************************************************************************)
\* C25: if the refpix step raises inside do_pseudo_refpix, the pixel DQ
\* array equals its pre-call value (no temporarily added REFERENCE_PIXEL
\* bit is left) and refpix.use_side_ref_pixels has its pre-call value.
C25_NoPartialMutation ==
    (rp_pc = "raised" /\ rp_path = "pseudo") =>
        /\ rp_pixeldq = rp_pre[1]
        /\ use_side_ref_pixels = rp_pre[2]

(***************************************************************************)
(* Claims about run_step (SpecRunStep)                                      *)
(***************************************************************************)
\* C27: run_step saves nothing when step.skip is set or when group_scale or
\* gain_scale reports SKIPPED; otherwise an explicit save_results argument
\* decides, else save_intermediates, else the step's own flag; a paired
\* result is saved as two products, any other as one.
C27_SaveDecision ==
    rs_pc = "done" =>
        LET skipped == rs_skip \/ (rs_step \in {"group_scale", "gain_scale"}
                                      /\ rs_status = "SKIPPED")
            wanted == CASE rs_arg = "True" -> TRUE
                        [] rs_arg = "False" -> FALSE
                        [] OTHER -> (save_intermediates \/ rs_pre)
        IN  /\ skipped => rs_saved = <<>>
            /\ (~skipped /\ ~wanted) => rs_saved = <<>>
            /\ (~skipped /\ wanted /\ rs_paired) => rs_saved = <<"0", "1">>
            /\ (~skipped /\ wanted /\ ~rs_paired) => rs_saved = <<"">>

C27_Witness ==
    /\ rs_pc = "done"
    /\ rs_step = "gain_scale" /\ ~rs_skip /\ rs_status = "SKIPPED"
    /\ rs_arg = "True" /\ save_intermediates /\ rs_pre
    /\ rs_saved = <<>>

(***************************************************************************)
(* Claims about the temporary overrides (SpecOverrides)                     *)
(***************************************************************************)
\* C30: on normal return saturation.n_pix_grow_sat, refpix.use_side_ref_pixels
\* and the step's save_results flag have their pre-call values, and during
\* the wrapped step call they hold the overriding values: 0 in the
\* non-diagonal growth run, False when no left or right border is
\* requested, and False.
C30_OverridesUndone ==
    /\ sat_pc = "done" => n_pix_grow_sat = sat_pre[2]
    /\ sat_pc \in {"grow", "done"} =>
          sat_step_saw[2] = IF ~sat_grow_diagonal /\ sat_pre[2] > 0 THEN 0 ELSE sat_pre[2]
    /\ rp_pc = "done" => use_side_ref_pixels = rp_pre[2]
    /\ (rp_pc \in {"unflag", "done"} /\ rp_path = "pseudo") =>
          rp_step_saw[2] = IF nleft = 0 /\ nright = 0 THEN FALSE ELSE rp_pre[2]
    /\ rs_pc = "done" => rs_save_results = rs_pre
    /\ rs_pc \in {"save", "done"} => rs_step_saw = <<FALSE>>

C30_Witness ==
    /\ sat_pc = "done"
    /\ ~sat_grow_diagonal /\ sat_pre[2] > 0
    /\ sat_step_saw[2] = 0
    /\ n_pix_grow_sat = sat_pre[2]

(***************************************************************************)
(* C26: when subtract_fnoise has finished, the column ranges of the        *)
(* channels are pairwise disjoint and together are all nx columns, every   *)
(* column of every group frame has had exactly one channel's model         *)
(* subtracted, and each model was computed from its channel's columns only. *)
(***************************************************************************)
ChannelColumns(ch) ==
    { x \in 0 .. fn_nx - 1 :
        \E k \in DOMAIN fn_subtracted :
            k[3] = x /\ \E n \in 1 .. Len(fn_subtracted[k]) : fn_subtracted[k][n] = ch }

C26_ChannelPartition ==
    (fn_pc = "done" /\ fn_ran) =>
        /\ \A c1, c2 \in 0 .. fn_noutputs - 1 :
              c1 # c2 => ChannelColumns(c1) \cap ChannelColumns(c2) = {}
        /\ UNION { ChannelColumns(ch) : ch \in 0 .. fn_noutputs - 1 } = 0 .. fn_nx - 1
        /\ \A k \in DOMAIN fn_subtracted : Len(fn_subtracted[k]) = 1
        /\ \A k \in DOMAIN fn_model_from : fn_model_from[k] \subseteq ChannelColumns(k[3])

(***************************************************************************)
(* C28: once subtract_fnoise is past its slope fit, the signal mask comes  *)
(* from a fit made by subtract_fnoise itself, on the ramp as it was when   *)
(* subtract_fnoise was entered (this exposure's, after the bias            *)
(* subtraction), and that fit is the latest one made.                      *)
(***************************************************************************)
C28_FreshSlopeFit ==
    (fn_ran /\ fn_pc \in {"channels", "done"}) =>
        /\ fn_mask_from.caller = "subtract_fnoise"
        /\ fn_mask_from.ramp = fn_entry_ramp
        /\ fn_entry_ramp.exposure = fn_exposure
        /\ fn_entry_ramp.ktc = (Len(fn_fits) = 2 * fn_exposure)
        /\ fn_fits[Len(fn_fits)] = fn_mask_from

C28_Witness ==
    /\ fn_pc = "done"
    /\ fn_ran
    /\ fn_exposure = 2
    /\ ~fn_rk
    /\ Len(fn_fits) = 4
    /\ fn_mask_from.ramp = [exposure |-> 2, ktc |-> TRUE]

(***************************************************************************)
(* C29: subtract_ktc changes the counts only: from every group of pixel p  *)
(* of integration a it subtracts the one value bias_arr[a][p], so the      *)
(* differences between groups stay as they were; group DQ and pixel DQ     *)
(* stay as they were; and bias_arr[a] is the fit of integration a's own    *)
(* data and group DQ, equal for integrations that hold the same data and   *)
(* DQ.  (Counts and biases are numerators over a denominator.)             *)
(***************************************************************************)
KtcSubtracted(a) == kt_pc = "done" \/ (kt_pc = "subtract" /\ a < kt_i)

C29_BiasOnlyShift ==
    kt_pc # "idle" =>
        /\ kt_groupdq = kt_pre.groupdq
        /\ kt_pixeldq = kt_pre.pixeldq
        /\ \A a \in 0 .. kt_nints - 1 : \A p \in Pixels :
              IF KtcSubtracted(a)
              THEN LET b == kt_bias_arr[a + 1][p]
                   IN  /\ \A g \in 0 .. kt_ngroups - 1 :
                             kt_data[a][g][p] * b[2]
                                = (kt_pre.data[a][g][p] * b[2] - b[1]) * kt_den[a][p]
                       /\ \A g, h \in 0 .. kt_ngroups - 1 :
                             kt_data[a][g][p] - kt_data[a][h][p]
                                = (kt_pre.data[a][g][p] - kt_pre.data[a][h][p]) * kt_den[a][p]
                       /\ kt_den[a][p] > 0
              ELSE /\ kt_den[a][p] = 1
                   /\ \A g \in 0 .. kt_ngroups - 1 : kt_data[a][g][p] = kt_pre.data[a][g][p]
        /\ \A a \in 1 .. Len(kt_bias_arr) :
              LET own == cube_fit(tarr_of(kt_ngroups, kt_group_time), kt_pre.data[a - 1],
                                  kt_sat, kt_pre.groupdq[a - 1], kt_ngroups)
              IN  kt_bias_arr[a] = [p \in Pixels |-> <<own.cf[0][p], own.den[p]>>]
        /\ \A a, a2 \in 1 .. Len(kt_bias_arr) :
              (/\ kt_pre.data[a - 1] = kt_pre.data[a2 - 1]
               /\ kt_pre.groupdq[a - 1] = kt_pre.groupdq[a2 - 1])
                  => kt_bias_arr[a] = kt_bias_arr[a2]

\* both integrations corrected, by different non-zero biases, one with a flagged group
C29_Witness ==
    /\ kt_pc = "done"
    /\ kt_nints = 2
    /\ kt_ngroups = 3
    /\ \E p \in Pixels :
          /\ kt_bias_arr[1][p][1] # 0
          /\ kt_bias_arr[2][p][1] # 0
          /\ kt_bias_arr[1][p][1] * kt_bias_arr[2][p][2]
                # kt_bias_arr[2][p][1] * kt_bias_arr[1][p][2]
          /\ kt_data[0][0][p] # kt_pre.data[0][0][p] * kt_den[0][p]
    /\ \E g \in 0 .. 2 : \E p \in Pixels : kt_groupdq[1][g][p] # 0

====
